---- MODULE Spec2Model ----
(***************************************************************************)
(* Job orchestration and resource control of the CV project recommender:   *)
(* the in-memory JobManager (backend/job_manager.py), the job-run          *)
(* process_cv_analysis with the LangGraph workflow it drives               *)
(* (backend/main.py, graph/workflow.py, graph/nodes.py) and the token      *)
(* bucket RateLimiter (utils/rate_limiter.py).                             *)
(*                                                                         *)
(* The specifications share the variables:                                 *)
(*   SpecStore    the JobManager used as a library by client threads       *)
(*   SpecJobs     the application: analyze_cv, job-runs, the sweeper       *)
(*   SpecRL       concurrent callers of RateLimiter.acquire on a service   *)
(*   SpecFresh    successive non-blocking acquires on a fresh bucket       *)
(*   SpecLimiter  RateLimiter built from the settings: enabled or not,     *)
(*                a service's rate positive or 0                           *)
(*   SpecCache    clients of CacheManager: set, get, delete, time passing  *)
(*   SpecCached   calls through the cached decorator (utils/cache.py)      *)
(*   SpecRetry    calls through retry_on_error (utils/error_handler.py)    *)
(*   SpecNodes    calls of the four stage nodes (graph/nodes.py)           *)
(*   SpecRecommend  generate_recommendations, with the searches it makes   *)
(*                (agents/project_recommender.py)                          *)
(*   SpecFeed     one progress stream next to the job-run it reports       *)
(*   SpecSkills   calls on the SkillGapAnalyzerAgent                       *)
(*                (agents/skill_gap_analyzer.py)                           *)
(*   SpecGaps     get_prioritized_gaps on the analysis of a CV and a job   *)
(*   SpecLate     mutator calls of the JobManager on ids it does not hold  *)
(*   SpecClients  the GitHub, YouTube, Google and LLM clients: retry,      *)
(*                cache, acquire, request (integrations)                   *)
(*   SpecTorn     a reader thread beside JobState.update's assignments     *)
(*   SpecRuns     SpecJobs with the serialization failure, and with weak   *)
(*                fairness of the statements of a started job-run          *)
(*                                                                         *)
(* Python values: Optional[x] is <<>> (None) or <<x>>; a str is a sequence *)
(* of text fragments, so "" is <<>> and joining and formatting are         *)
(* concatenations.                                                         *)
(* The skill names of SpecSkills are sequences of characters.              *)
(***************************************************************************)
EXTENDS Integers, Sequences, FiniteSets, TLC

\* ---------------------------------------------------------------- bounds
MaxJobs == 2        \* job ids that create_job hands out
MaxTime == 2        \* the clock (seconds) stops advancing here
MaxCalls == 2       \* mutator calls made by the clients of SpecStore
Rate == 2           \* TokenBucket(rate): the tokens of the model's bucket
Grain == 2          \* clock ticks in the time that refills one token
NumCallers == 2     \* threads calling acquire on the service
MaxAcquires == 3    \* acquire calls made in SpecRL
MaxTries == 4       \* acquire calls made in SpecFresh
MaxClock == 4       \* the limiter's clock stops advancing here
MaxCacheOps == 3    \* calls made on the cache by its clients in SpecCache
MaxWrapped == 2     \* calls made through the cached wrapper
MaxRetries == 2     \* the largest max_retries given to retry_on_error
MaxTtl == 1         \* the largest ttl (seconds) passed to set
MaxNodeCalls == 3   \* stage nodes called one after another in SpecNodes
MaxGaps == 2        \* skill gaps handed to the project recommender
MaxEvents == 3      \* events one progress stream sends
MaxNameLen == 3     \* characters of a generated skill name
MaxSkills == 3      \* skills of a CV, and of a job description
MaxClientCalls == 2 \* calls of client methods made by the agents

\* JobManager(retention_seconds): the model's instance keeps jobs 1 second
RetentionSeconds == 1

JobIds == 1..MaxJobs

None == <<>>
Some(x) == <<x>>

Min(a, b) == IF a < b THEN a ELSE b
Max(a, b) == IF a > b THEN a ELSE b

\* ------------------------------------------------------------- variables
VARIABLES
    now,        \* datetime.utcnow(), in seconds
    jobs,       \* the JobState objects ever allocated, by job id (the heap)
    store,      \* the keys of JobManager._jobs
    nextId,     \* the next id uuid4 yields (ids are never reused)
    held,       \* the reference a client got from get_job (0: None)
    snap,       \* the fields that reference had when get_job returned
    calls,      \* mutator calls made so far by the clients of SpecStore
    completed,  \* per job: the result of the last set_completed call on it
    written,    \* per job: a mutator was called on it after that set_completed
    loop,       \* the job whose run holds the asyncio event loop (0: idle)
    pc,         \* per job: position of its job-run
    ctx,        \* per job: the workflow state of its job-run
    sweeper,    \* position of the cleanup thread: "sleep" or "cleanup"
    clock,      \* time.time(), in ticks of per / (rate * Grain) seconds
    tokens,     \* TokenBucket.tokens, in units of 1 / Grain token
    last_update,\* TokenBucket.last_update
    acq,        \* per caller: its acquire call and where it stands in it
    started,    \* acquire calls started so far
    ledger,     \* units granted since an observer began to count, and
                \* when that was and what the bucket held then
    fresh,      \* SpecFresh: the consume calls made on the fresh bucket
    limiter,    \* SpecLimiter: the RateLimiter built from the settings
    manager,    \* the CacheManager built from the settings
    cache,      \* InMemoryCache._cache: key -> <<value, expiry>>
    cacheOps,   \* calls made on the cache so far
    given,      \* per key: value, ttl and time of the last set on it
    got,        \* the last get: key, what it returned, when, the set it
                \* followed and whether the entry was still stored after it
    wrap,       \* the last call through a cached wrapper
    prev,       \* the call through the wrapper before that one
    retry,      \* a call through a retry_on_error wrapper: its locals,
                \* what func did at each attempt and the sleeps made
    rec,        \* SpecRecommend: one generate_recommendations call inside
                \* generate_recommendations_node
    buckets,    \* RateLimiter.limiters: service -> the TokenBucket's fields
    cli,        \* SpecClients: the call of a client method under way
    wire,       \* the request sent last to a remote service
    answered,   \* per search and query: the value last cached, and when
    cliCalls,   \* calls of client methods made so far
    wr,         \* SpecTorn: the writer inside update_job, its kwargs left to assign
    rd,         \* SpecTorn: the reader, the attributes it has read so far
    late,       \* SpecLate: the last mutator call on an id that is not stored
    gapCall,    \* SpecSkills: the last call made on the SkillGapAnalyzerAgent
    feed,       \* SpecFeed: the event_generator of one stream_progress call
    nodeRun     \* SpecNodes: the workflow state handed from node to node,
                \* and the last node call made on it

jobVars == <<now, jobs, store, nextId>>
clientVars == <<held, snap, calls, completed, written>>
runVars == <<loop, pc, ctx, sweeper>>
rlVars == <<clock, tokens, last_update, acq, started, ledger, fresh>>
gateVars == <<limiter>>
cacheVars == <<manager, cache, cacheOps, given, got, wrap, prev>>
retryVars == <<retry>>
extVars == <<late, buckets, cli, wire, answered, cliCalls, wr, rd>>
agentVars == <<nodeRun, rec, feed, gapCall, extVars>>
utilVars == <<gateVars, cacheVars, retryVars, agentVars>>
baseVars == <<jobVars, clientVars, runVars, rlVars, gateVars, cacheVars, retryVars, extVars>>
coreVars == <<jobVars, clientVars, runVars, rlVars, gateVars, cacheVars, retryVars,
              nodeRun, rec, feed, gapCall>>

\* ------------------------------------------------------------- JobState
PENDING == "pending"
PROCESSING == "processing"
COMPLETED == "completed"
FAILED == "failed"
JobStatus == {PENDING, PROCESSING, COMPLETED, FAILED}

\* JobState that starts with the progress of the first stage
NewJobState_Started(status) ==
    [status |-> status,
     progress_percentage |-> 10,
     current_step |-> "Initializing...",
     result |-> None,
     error |-> None,
     updated_at |-> now]

\* JobState(job_id, status): the dataclass defaults
NewJobState(status) ==
    [status |-> status,
     progress_percentage |-> 0,
     current_step |-> "Initializing...",
     result |-> None,
     error |-> None,
     updated_at |-> now]

\* JobState.update(**kwargs): known fields are assigned, updated_at refreshed
JobStateUpdate(job, kwargs) ==
    [k \in DOMAIN job |->
        IF k = "updated_at" THEN now
        ELSE IF k \in DOMAIN kwargs THEN kwargs[k]
        ELSE job[k]]

\* ------------------------------------------------------------ JobManager
\* create_job: a fresh id, a Pending JobState stored under it
CreateJob(job_id) ==
    /\ jobs' = [jobs EXCEPT ![job_id] = NewJobState(PENDING)]
    /\ store' = store \cup {job_id}

\* get_job: self._jobs.get(job_id), the stored object itself
GetJob(job_id) == IF job_id \in store THEN job_id ELSE 0

\* update_job that does not look the id up first
UpdateJob_Unchecked(job_id, kwargs) ==
    jobs' = [jobs EXCEPT ![job_id] = JobStateUpdate(@, kwargs)]

\* update_job: no-op for an unknown id
UpdateJob(job_id, kwargs) ==
    jobs' = IF job_id \in store
            THEN [jobs EXCEPT ![job_id] = JobStateUpdate(@, kwargs)]
            ELSE jobs

SetProcessing(job_id, current_step) ==
    UpdateJob(job_id, [status |-> PROCESSING, current_step |-> current_step])

\* set_progress that stores the percentage as passed
SetProgress_AsPassed(job_id, percentage, step) ==
    UpdateJob(job_id, [progress_percentage |-> percentage, current_step |-> step])

SetProgress(job_id, percentage, step) ==
    UpdateJob(job_id, [progress_percentage |-> Min(100, Max(0, percentage)),
                       current_step |-> step])

\* set_completed without the result
SetCompleted_DropsResult(job_id, result) ==
    UpdateJob(job_id, [status |-> COMPLETED,
                       progress_percentage |-> 100,
                       current_step |-> "Completed"])

\* set_completed without the progress
SetCompleted_KeepsProgress(job_id, result) ==
    UpdateJob(job_id, [status |-> COMPLETED,
                       current_step |-> "Completed",
                       result |-> Some(result)])

SetCompleted(job_id, result) ==
    UpdateJob(job_id, [status |-> COMPLETED,
                       progress_percentage |-> 100,
                       current_step |-> "Completed",
                       result |-> Some(result)])

\* set_failed that files the message as a result too
SetFailed_AlsoResult(job_id, error) ==
    UpdateJob(job_id, [status |-> FAILED,
                       current_step |-> "Failed",
                       result |-> Some(error),
                       error |-> Some(error)])

SetFailed(job_id, error) ==
    UpdateJob(job_id, [status |-> FAILED,
                       current_step |-> "Failed",
                       error |-> Some(error)])

IsTerminal(job) == job.status \in {COMPLETED, FAILED}

\* jobs_to_remove with the cutoff itself included
JobsToRemove_AtCutoff ==
    {job_id \in store :
        /\ jobs[job_id].status \in {COMPLETED, FAILED}
        /\ jobs[job_id].updated_at <= now - RetentionSeconds}

\* _cleanup_old_jobs: jobs_to_remove
JobsToRemove ==
    {job_id \in store :
        /\ jobs[job_id].status \in {COMPLETED, FAILED}
        /\ jobs[job_id].updated_at < now - RetentionSeconds}

\* _cleanup_old_jobs, one critical section
CleanupOldJobs ==
    /\ store' = store \ JobsToRemove
    /\ UNCHANGED <<now, jobs, nextId>>

\* delete_job
DeleteJob(job_id) ==
    /\ store' = store \ {job_id}
    /\ UNCHANGED <<now, jobs, nextId>>

\* ------------------------------------------------ SpecStore: the library
\* Arguments the clients pass
Percentages == {-5, 50, 150}
Results == {"planA", "planB"}
ClientError == <<"boom">>

\* the ids create_job has returned so far, stored or deleted since: uuid4
\* ids cannot be used before create_job has returned them
Issued == 1..(nextId - 1)

\* a client thread calls create_job
StoreCreate ==
    /\ nextId <= MaxJobs
    /\ CreateJob(nextId)
    /\ nextId' = nextId + 1
    /\ UNCHANGED <<now, held, snap, calls, completed, written, runVars, rlVars, utilVars>>

\* a client thread calls get_job and keeps what it returns
StoreGet(job_id) ==
    /\ job_id \in Issued
    /\ held = 0
    /\ held' = GetJob(job_id)
    /\ snap' = IF job_id \in store THEN jobs[job_id] ELSE snap
    /\ UNCHANGED <<jobVars, calls, completed, written, runVars, rlVars, utilVars>>

\* the frame of a mutator call on job_id by a client thread
Mutator(job_id) ==
    /\ job_id \in Issued
    /\ calls < MaxCalls
    /\ calls' = calls + 1
    /\ UNCHANGED <<now, store, nextId, held, snap, runVars, rlVars, utilVars>>

StoreSetProcessing(job_id) ==
    /\ Mutator(job_id)
    /\ SetProcessing(job_id, "Processing...")
    /\ written' = [written EXCEPT ![job_id] = TRUE]
    /\ UNCHANGED completed

StoreSetProgress(job_id, percentage) ==
    /\ Mutator(job_id)
    /\ SetProgress(job_id, percentage, "Working...")
    /\ written' = [written EXCEPT ![job_id] = TRUE]
    /\ UNCHANGED completed

StoreSetCompleted(job_id, result) ==
    /\ Mutator(job_id)
    /\ SetCompleted(job_id, result)
    /\ completed' = [completed EXCEPT ![job_id] = Some(result)]
    /\ written' = [written EXCEPT ![job_id] = FALSE]

StoreSetFailed(job_id) ==
    /\ Mutator(job_id)
    /\ SetFailed(job_id, ClientError)
    /\ written' = [written EXCEPT ![job_id] = TRUE]
    /\ UNCHANGED completed

StoreDelete(job_id) ==
    /\ job_id \in store
    /\ DeleteJob(job_id)
    /\ UNCHANGED <<held, snap, calls, completed, written, runVars, rlVars, utilVars>>

\* --------------------------------------------------- errors and strings
\* the exceptions the collaborators of the stages raise
CVParsingError == [kind |-> "CVParsingError", message |-> <<"Unsupported file format">>]
JobAnalysisError == [kind |-> "JobAnalysisError", message |-> <<"Job description is too short">>]
SkillGapAnalysisError == [kind |-> "SkillGapAnalysisError", message |-> <<"Failed to analyze skill gaps">>]
ProjectRecommendationError == [kind |-> "ProjectRecommendationError", message |-> <<"Failed to generate recommendations">>]
ValueError(text) == [kind |-> "ValueError", message |-> <<text>>]
\* what create_workflow may raise
CompileError == [kind |-> "GraphError", message |-> <<"Invalid graph">>]
\* what result.model_dump() may raise
DumpError == [kind |-> "PydanticSerializationError", message |-> <<"Unable to serialize">>]
\* what app.invoke itself may raise
InvokeError == [kind |-> "GraphError", message |-> <<"Recursion limit reached">>]

\* str(e)
Str(e) == e.message

\* format_error_for_user: the isinstance chain
FormatErrorForUser(error) ==
    IF error.kind = "CVParsingError"
    THEN <<"Failed to parse CV: ">> \o error.message
             \o <<". Please ensure the file is a valid PDF or DOCX.">>
    ELSE IF error.kind = "JobAnalysisError"
    THEN <<"Failed to analyze job description: ">> \o error.message
             \o <<". Please check the job description text.">>
    ELSE IF error.kind = "RateLimitError"
    THEN <<"API rate limit exceeded for ", error.api_name, ".">>
             \o (IF error.retry_after # None /\ error.retry_after # Some(0)
                 THEN <<" Please wait ", ToString(error.retry_after[1]), " seconds.">>
                 ELSE <<>>)
    ELSE IF error.kind = "APIError"
    THEN <<"API error (", error.api_name, "): ">> \o error.message
             \o <<". Please try again later.">>
    ELSE IF error.kind = "ConfigurationError"
    THEN <<"Configuration error: ">> \o error.message
             \o <<". Please check your settings.">>
    ELSE IF error.kind \in {"SkillGapAnalysisError", "ProjectRecommendationError",
                            "RecommenderException"}
    THEN <<"Error: ">> \o error.message
    ELSE <<"An unexpected error occurred: ">> \o Str(error) \o <<". Please try again.">>

\* "; ".join(errors)
RECURSIVE JoinErrors(_)
JoinErrors(errors) ==
    IF Len(errors) = 0 THEN <<>>
    ELSE IF Len(errors) = 1 THEN errors[1]
    ELSE errors[1] \o <<"; ">> \o JoinErrors(Tail(errors))

\* ----------------------------------------------------------- the workflow
Stages == <<"parse_cv", "analyze_job", "identify_gaps", "generate_recommendations">>

\* a RecommendationResult and its model_dump()
Plans == {"planA", "planB"}
RecommendationResult(plan) == [cls |-> "RecommendationResult", data |-> plan]
ModelDump(result) == result.data

\* run_workflow: initial_state (executed and failed_at record the run's history)
InitialState ==
    [cv_file_path |-> Some("cv.pdf"),
     cv_text |-> None,
     cv_data |-> None,
     job_requirements |-> None,
     skill_match_analysis |-> None,
     recommendation_result |-> None,
     errors |-> <<>>,
     current_step |-> "Starting...",
     progress_percentage |-> 0,
     executed |-> <<>>,
     failed_at |-> 0]

Entered(state, node, step, percentage) ==
    [state EXCEPT !.executed = Append(@, node),
                  !.current_step = step,
                  !.progress_percentage = percentage]

\* the except branch of a stage node
Failed(state, k, e) ==
    [state EXCEPT !.errors = Append(@, FormatErrorForUser(e)),
                  !.failed_at = k]

\* parse_cv_node; outcome is what the CV parser does: <<"ok", value>> or <<"raise", e>>
ParseCvNode(state, outcome) ==
    LET s == Entered(state, "parse_cv", "Parsing CV...", 10) IN
    IF s.cv_file_path = None /\ s.cv_text = None
    THEN Failed(s, 1, ValueError("No CV file path or text provided"))
    ELSE IF outcome[1] = "raise" THEN Failed(s, 1, outcome[2])
    ELSE [s EXCEPT !.cv_data = Some(outcome[2]), !.progress_percentage = 25]

\* analyze_job_node
AnalyzeJobNode(state, outcome) ==
    LET s == Entered(state, "analyze_job", "Analyzing job description...", 30) IN
    IF outcome[1] = "raise" THEN Failed(s, 2, outcome[2])
    ELSE [s EXCEPT !.job_requirements = Some(outcome[2]), !.progress_percentage = 45]

\* identify_gaps_node
IdentifyGapsNode(state, outcome) ==
    LET s == Entered(state, "identify_gaps", "Identifying skill gaps...", 50) IN
    IF s.cv_data = None \/ s.job_requirements = None
    THEN Failed(s, 3, ValueError("Missing CV data or job requirements"))
    ELSE IF outcome[1] = "raise" THEN Failed(s, 3, outcome[2])
    ELSE [s EXCEPT !.skill_match_analysis = Some(outcome[2]), !.progress_percentage = 60]

\* generate_recommendations_node
GenerateRecommendationsNode(state, outcome) ==
    LET s == Entered(state, "generate_recommendations",
                     "Generating project recommendations...", 65) IN
    IF s.cv_data = None \/ s.job_requirements = None
    THEN Failed(s, 4, ValueError("Missing CV data or job requirements"))
    ELSE IF outcome[1] = "raise" THEN Failed(s, 4, outcome[2])
    ELSE [s EXCEPT !.recommendation_result = Some(outcome[2]),
                   !.current_step = "Complete!",
                   !.progress_percentage = 100]

\* error_handler_node
ErrorHandlerNode(state) ==
    [state EXCEPT !.executed = Append(@, "error_handler"),
                  !.current_step = "Error occurred",
                  !.progress_percentage = 0]

\* should_continue that does not look at the errors
ShouldContinue_IgnoresErrors(state) ==
    IF state.recommendation_result # None THEN "end" ELSE "continue"

\* should_continue
ShouldContinue(state) ==
    IF Len(state.errors) > 0 THEN "error"
    ELSE IF state.recommendation_result # None THEN "end"
    ELSE "continue"

\* conditional edges that never lead to the error handler
Edge_AlwaysAdvances(k, state) ==
    IF k < 4 THEN Stages[k + 1] ELSE "sync_progress"

\* create_workflow: the conditional edges of stage k (END is "sync_progress",
\* where process_cv_analysis goes on with the final state)
Edge(k, state) ==
    LET route == ShouldContinue(state) IN
    IF route = "error" THEN "error_handler"
    ELSE IF route = "end" THEN "sync_progress"
    ELSE IF k < 4 THEN Stages[k + 1]
    ELSE "sync_progress"

\* what the collaborator of stage k can do
Outcomes(k) ==
    IF k = 1 THEN {<<"ok", "cv">>, <<"raise", CVParsingError>>}
    ELSE IF k = 2 THEN {<<"ok", "requirements">>, <<"raise", JobAnalysisError>>}
    ELSE IF k = 3 THEN {<<"ok", "analysis">>, <<"raise", SkillGapAnalysisError>>}
    ELSE {<<"ok", RecommendationResult(plan)>> : plan \in Plans}
             \cup {<<"raise", ProjectRecommendationError>>}

RunNode(k, state, outcome) ==
    IF k = 1 THEN ParseCvNode(state, outcome)
    ELSE IF k = 2 THEN AnalyzeJobNode(state, outcome)
    ELSE IF k = 3 THEN IdentifyGapsNode(state, outcome)
    ELSE GenerateRecommendationsNode(state, outcome)

\* ------------------------------------------- SpecJobs: the application
\* analyze_cv: create_job, then create_task(process_cv_analysis(job_id, ...))
AnalyzeCv ==
    /\ loop = 0
    /\ nextId <= MaxJobs
    /\ CreateJob(nextId)
    /\ nextId' = nextId + 1
    /\ pc' = [pc EXCEPT ![nextId] = "scheduled"]
    /\ UNCHANGED <<now, held, snap, calls, completed, written, loop, ctx, sweeper, rlVars, utilVars>>

\* process_cv_analysis has no await: once started it holds the event loop
\* to its end; other threads (the sweeper) still run between its steps
StartRun(j) ==
    /\ loop = 0
    /\ pc[j] = "scheduled"
    /\ loop' = j
    /\ SetProcessing(j, "Parsing CV and analyzing job description...")
    /\ pc' = [pc EXCEPT ![j] = "init_progress"]
    /\ UNCHANGED <<now, store, nextId, clientVars, ctx, sweeper, rlVars, utilVars>>

InitProgress(j) ==
    /\ pc[j] = "init_progress"
    /\ SetProgress(j, 10, "Initializing workflow...")
    /\ pc' = [pc EXCEPT ![j] = "run_workflow"]
    /\ UNCHANGED <<now, store, nextId, clientVars, loop, ctx, sweeper, rlVars, utilVars>>

\* run_workflow: create_workflow() and the initial state; app.invoke begins
EnterWorkflow(j) ==
    /\ pc[j] = "run_workflow"
    /\ ctx' = [ctx EXCEPT ![j] = Some(InitialState)]
    /\ pc' = [pc EXCEPT ![j] = Stages[1]]
    /\ UNCHANGED <<jobVars, clientVars, loop, sweeper, rlVars, utilVars>>

\* app.invoke raises: run_workflow returns initial_state with str(e) appended
InvokeRaises(j, e) ==
    /\ pc[j] = "run_workflow"
    /\ ctx' = [ctx EXCEPT ![j] = Some([InitialState EXCEPT
                                         !.errors = Append(@, Str(e)),
                                         !.current_step = "Failed"])]
    /\ pc' = [pc EXCEPT ![j] = "sync_progress"]
    /\ UNCHANGED <<jobVars, clientVars, loop, sweeper, rlVars, utilVars>>

\* an except branch that logs the exception and nothing more
ExceptBranch_LogsOnly(j, e) == UNCHANGED jobs

\* process_cv_analysis: `except Exception as e`
ExceptBranch(j, e) == SetFailed(j, <<"Analysis failed: ">> \o Str(e))

\* create_workflow raises: the except branch of process_cv_analysis
SetupRaises(j, e) ==
    /\ pc[j] = "run_workflow"
    /\ ExceptBranch(j, e)
    /\ pc' = [pc EXCEPT ![j] = "done"]
    /\ loop' = 0
    /\ UNCHANGED <<now, store, nextId, clientVars, ctx, sweeper, rlVars, utilVars>>

\* stage k runs and the graph follows its conditional edge
Stage(j, k, outcome) ==
    /\ pc[j] = Stages[k]
    /\ LET state == RunNode(k, ctx[j][1], outcome) IN
        /\ ctx' = [ctx EXCEPT ![j] = Some(state)]
        /\ pc' = [pc EXCEPT ![j] = Edge(k, state)]
    /\ UNCHANGED <<jobVars, clientVars, loop, sweeper, rlVars, utilVars>>

\* the error handler runs; its edge leads to END
ErrorHandler(j) ==
    /\ pc[j] = "error_handler"
    /\ ctx' = [ctx EXCEPT ![j] = Some(ErrorHandlerNode(ctx[j][1]))]
    /\ pc' = [pc EXCEPT ![j] = "sync_progress"]
    /\ UNCHANGED <<jobVars, clientVars, loop, sweeper, rlVars, utilVars>>

\* process_cv_analysis: "Update progress from workflow state"
SyncProgress(j) ==
    /\ pc[j] = "sync_progress"
    /\ LET final_state == ctx[j][1] IN
        IF final_state.current_step # ""
        THEN SetProgress(j, final_state.progress_percentage, final_state.current_step)
        ELSE UNCHANGED jobs
    /\ pc' = [pc EXCEPT ![j] = "check"]
    /\ UNCHANGED <<now, store, nextId, clientVars, loop, ctx, sweeper, rlVars, utilVars>>

\* process_cv_analysis: "Check for errors" and "Get result"
Finish(j) ==
    /\ pc[j] = "check"
    /\ LET final_state == ctx[j][1] IN
        IF Len(final_state.errors) > 0
        THEN SetFailed(j, JoinErrors(final_state.errors))
        ELSE IF final_state.recommendation_result # None
        THEN SetCompleted(j, ModelDump(final_state.recommendation_result[1]))
        ELSE SetFailed(j, <<"No recommendation result generated">>)
    /\ pc' = [pc EXCEPT ![j] = "done"]
    /\ loop' = 0
    /\ UNCHANGED <<now, store, nextId, clientVars, ctx, sweeper, rlVars, utilVars>>

\* process_cv_analysis: result.model_dump() raises, the except branch
DumpRaises(j, e) ==
    /\ pc[j] = "check"
    /\ LET final_state == ctx[j][1] IN
        /\ Len(final_state.errors) = 0
        /\ final_state.recommendation_result # None
    /\ ExceptBranch(j, e)
    /\ pc' = [pc EXCEPT ![j] = "done"]
    /\ loop' = 0
    /\ UNCHANGED <<now, store, nextId, clientVars, ctx, sweeper, rlVars, utilVars>>

\* the statements of the run of job j, from set_progress(10) to its end
RunStep(j) ==
    \/ InitProgress(j)
    \/ EnterWorkflow(j)
    \/ InvokeRaises(j, InvokeError)
    \/ SetupRaises(j, CompileError)
    \/ \E k \in 1..4 : \E outcome \in Outcomes(k) : Stage(j, k, outcome)
    \/ ErrorHandler(j)
    \/ SyncProgress(j)
    \/ Finish(j)
    \/ DumpRaises(j, DumpError)

\* cleanup_loop: time.sleep(300) returns
SweeperWakes ==
    /\ sweeper = "sleep"
    /\ sweeper' = "cleanup"
    /\ UNCHANGED <<jobVars, clientVars, loop, pc, ctx, rlVars, utilVars>>

\* cleanup_loop: self._cleanup_old_jobs(), then back to sleep
Sweep ==
    /\ sweeper = "cleanup"
    /\ CleanupOldJobs
    /\ sweeper' = "sleep"
    /\ UNCHANGED <<clientVars, loop, pc, ctx, rlVars, utilVars>>

\* wall-clock time passes
Tick ==
    /\ now < MaxTime
    /\ now' = now + 1
    /\ UNCHANGED <<jobs, store, nextId, clientVars, runVars, rlVars, utilVars>>

\* ------------------------------------- SpecLate: writes to unknown jobs
Mutators == {"update_job", "set_processing", "set_progress", "set_completed", "set_failed"}

\* the call of a mutator by its name
CallMutator(method, job_id) ==
    CASE method = "update_job" -> UpdateJob(job_id, [status |-> PROCESSING])
      [] method = "set_processing" -> SetProcessing(job_id, "Processing...")
      [] method = "set_progress" -> SetProgress(job_id, 50, "Working...")
      [] method = "set_completed" -> SetCompleted(job_id, "planA")
      [] method = "set_failed" -> SetFailed(job_id, ClientError)

\* a thread calls a mutator with an id that is not a key of _jobs: an id
\* create_job never returned, or the id of a job deleted or cleaned up since
LateWrite(job_id, method) ==
    /\ job_id \notin store
    /\ calls < MaxCalls
    /\ calls' = calls + 1
    /\ CallMutator(method, job_id)
    /\ UNCHANGED <<now, store, nextId>>
    /\ late' = [job_id |-> job_id, method |-> method,
                created |-> job_id \in Issued,
                unchanged |-> jobs' = jobs /\ store' = store]
    /\ UNCHANGED <<held, snap, completed, written, runVars, rlVars, gateVars,
                   cacheVars, retryVars, nodeRun, rec, feed, gapCall,
                   buckets, cli, wire, answered, cliCalls, wr, rd>>

InitLateVars == late = [job_id |-> 0, method |-> "none", created |-> FALSE, unchanged |-> TRUE]

\* ------------------------------------------- TokenBucket and RateLimiter
\* One service's bucket, TokenBucket(rate, per), with rate limiting enabled.
\* The clock ticks Grain times in the per / rate seconds that refill one
\* token and tokens are counted in 1 / Grain token, so that
\* elapsed * rate / per tokens is one unit a tick.
Capacity == Rate * Grain        \* self.rate tokens, in units
Period == Rate * Grain          \* self.per seconds, in ticks
Units(n) == n * Grain

Callers == 1..NumCallers
TokenCounts == {1, 2}

\* the refill without min(self.rate, ...)
Refilled_Uncapped == tokens + (clock - last_update)

\* consume: "Refill tokens based on elapsed time"
Refilled == Min(Capacity, tokens + (clock - last_update))

\* consume: the value it returns
CanConsume(n) == Refilled >= Units(n)

\* consume: what it leaves in self.tokens
TokensAfterConsume(n) ==
    IF CanConsume(n) THEN Refilled - Units(n) ELSE Refilled

\* wait_time, in ticks: no refill, the stored count is read
WaitTime == IF tokens >= Units(1) THEN 0 ELSE Units(1) - tokens

Idle(ret, waited) ==
    [pc |-> "idle", n |-> 0, wait |-> FALSE, wake |-> 0, ret |-> ret, waited |-> waited]

\* consume that leaves self.last_update as it was
Consume_KeepsStamp(n) ==
    /\ tokens' = TokensAfterConsume(n)
    /\ last_update' = last_update

\* consume(tokens), one critical section of the bucket's lock
Consume(n) ==
    /\ tokens' = TokensAfterConsume(n)
    /\ last_update' = clock

\* the observer's ledger after a consume(n)
Booked(n) ==
    [ledger EXCEPT !.granted = @ + (IF CanConsume(n) THEN Units(n) ELSE 0)]

\* acquire(service, n, wait): the first consume and what follows from it
Acquire(c, n, wait) ==
    /\ acq[c].pc = "idle"
    /\ started < MaxAcquires
    /\ started' = started + 1
    /\ Consume(n)
    /\ ledger' = Booked(n)
    /\ acq' = [acq EXCEPT ![c] =
                  IF CanConsume(n) THEN Idle("True", FALSE)
                  ELSE IF wait
                       THEN [pc |-> "wait_time", n |-> n, wait |-> wait, wake |-> 0,
                             ret |-> "none", waited |-> FALSE]
                       ELSE Idle("False", FALSE)]
    /\ UNCHANGED <<clock, fresh, jobVars, clientVars, runVars, utilVars>>

\* acquire: wait_time = limiter.wait_time(), another critical section
ReadWaitTime(c) ==
    /\ acq[c].pc = "wait_time"
    /\ acq' = [acq EXCEPT ![c].pc = "sleep", ![c].wake = clock + WaitTime]
    /\ UNCHANGED <<clock, tokens, last_update, started, ledger, fresh,
                   jobVars, clientVars, runVars, utilVars>>

\* acquire: time.sleep(wait_time) is over, return limiter.consume(tokens)
WakeUp(c) ==
    /\ acq[c].pc = "sleep"
    /\ clock >= acq[c].wake
    /\ Consume(acq[c].n)
    /\ ledger' = Booked(acq[c].n)
    /\ acq' = [acq EXCEPT ![c] =
                  Idle(IF CanConsume(acq[c].n) THEN "True" ELSE "False", TRUE)]
    /\ UNCHANGED <<clock, started, fresh, jobVars, clientVars, runVars, utilVars>>

\* an observer starts measuring an interval: what the bucket holds now
StartInterval ==
    /\ ledger' = [ledger EXCEPT !.granted = 0, !.since = clock, !.avail = Refilled]
    /\ UNCHANGED <<clock, tokens, last_update, acq, started, fresh,
                   jobVars, clientVars, runVars, utilVars>>

ClockTick ==
    /\ clock < MaxClock
    /\ clock' = clock + 1
    /\ UNCHANGED <<tokens, last_update, acq, started, ledger, fresh,
                   jobVars, clientVars, runVars, utilVars>>

\* one caller on a fresh bucket: acquire(service, 1, wait=False), which
\* returns at once what consume(1) returns
TryAcquire ==
    /\ started < MaxTries
    /\ started' = started + 1
    /\ Consume(1)
    /\ fresh' = [calls |-> fresh.calls + 1,
                 first |-> IF fresh.calls = 0 THEN clock ELSE fresh.first,
                 at |-> clock,
                 ok |-> CanConsume(1),
                 gap |-> clock - last_update]
    /\ UNCHANGED <<clock, acq, ledger, jobVars, clientVars, runVars, utilVars>>

\* ------------------------------- SpecLimiter: RateLimiter as configured
\* settings.<service>_rate_limit: a positive rate or 0
Rates == {0, Rate}

Enabled == limiter[1].enable_rate_limiting
BucketRate == limiter[1].rate

\* RateLimiter.__init__: with rate limiting enabled the service gets a
\* TokenBucket(rate, per=60), a full bucket; disabled, it gets none
RateLimiterInit(enabled, rate) ==
    /\ limiter = None
    /\ limiter' = Some([enable_rate_limiting |-> enabled, rate |-> rate])
    /\ tokens' = IF enabled THEN rate * Grain ELSE 0
    /\ last_update' = clock
    /\ UNCHANGED <<clock, acq, started, ledger, fresh, jobVars, clientVars, runVars,
                   cacheVars, retryVars, agentVars>>

\* the refill without min(self.rate, ...)
RefilledOf_Uncapped(rate) ==
    tokens + ((clock - last_update) * rate) \div Rate

\* consume of a bucket of the given rate: self.tokens after the refill; a
\* tick is 1 / Period of per, so elapsed * rate / per is elapsed * rate / Rate
\* units
RefilledOf(rate) ==
    Min(rate * Grain, tokens + ((clock - last_update) * rate) \div Rate)

\* consume that subtracts what it can when there is not enough
LeftAfterConsume_Charges(rate, n) == Max(0, RefilledOf(rate) - Units(n))

\* consume: self.tokens when it returns
LeftAfterConsume(rate, n) ==
    IF RefilledOf(rate) >= Units(n) THEN RefilledOf(rate) - Units(n)
    ELSE RefilledOf(rate)

\* acquire up to the return or to the rate-limit-exceeded branch
RateLimiterAcquire(c, n, wait) ==
    /\ limiter # None
    /\ acq[c].pc = "idle"
    /\ started < MaxAcquires
    /\ started' = started + 1
    /\ IF ~Enabled
       THEN /\ acq' = [acq EXCEPT ![c] = Idle("True", FALSE)]
            /\ UNCHANGED <<tokens, last_update>>
       ELSE /\ tokens' = LeftAfterConsume(BucketRate, n)
            /\ last_update' = clock
            /\ acq' = [acq EXCEPT ![c] =
                  IF RefilledOf(BucketRate) >= Units(n) THEN Idle("True", FALSE)
                  ELSE IF wait
                       THEN [pc |-> "wait_time", n |-> n, wait |-> wait, wake |-> 0,
                             ret |-> "none", waited |-> FALSE]
                       ELSE Idle("False", FALSE)]
    /\ UNCHANGED <<clock, ledger, fresh, limiter, jobVars, clientVars, runVars,
                   cacheVars, retryVars, agentVars>>

\* acquire: limiter.wait_time(), (tokens_needed * self.per) / self.rate,
\* which divides by zero for a bucket of rate 0
RateLimiterWaitTime(c) ==
    /\ limiter # None
    /\ acq[c].pc = "wait_time"
    /\ acq' = [acq EXCEPT ![c] =
          IF tokens >= Units(1)
          THEN [@ EXCEPT !.pc = "sleep", !.wake = clock]
          ELSE IF BucketRate = 0
               THEN Idle("ZeroDivisionError", FALSE)
               ELSE [@ EXCEPT !.pc = "sleep",
                              !.wake = clock + ((Units(1) - tokens) * Rate) \div BucketRate]]
    /\ UNCHANGED <<clock, tokens, last_update, started, ledger, fresh, limiter,
                   jobVars, clientVars, runVars,
                   cacheVars, retryVars, agentVars>>

\* acquire: time.sleep(wait_time) is over, return limiter.consume(tokens)
RateLimiterWakeUp(c) ==
    /\ limiter # None
    /\ acq[c].pc = "sleep"
    /\ clock >= acq[c].wake
    /\ tokens' = LeftAfterConsume(BucketRate, acq[c].n)
    /\ last_update' = clock
    /\ acq' = [acq EXCEPT ![c] =
          Idle(IF RefilledOf(BucketRate) >= Units(acq[c].n) THEN "True" ELSE "False",
               TRUE)]
    /\ UNCHANGED <<clock, started, ledger, fresh, limiter, jobVars, clientVars, runVars,
                   cacheVars, retryVars, agentVars>>

\* TokenBucket.__init__: a full bucket
InitRLVars ==
    /\ clock = 0
    /\ tokens = Capacity
    /\ last_update = 0
    /\ acq = [c \in Callers |-> Idle("none", FALSE)]
    /\ started = 0
    /\ ledger = [granted |-> 0, since |-> 0, avail |-> Capacity]
    /\ fresh = [calls |-> 0, first |-> 0, at |-> 0, ok |-> TRUE, gap |-> 0]

\* ----------------------------------------- InMemoryCache and CacheManager
\* settings.cache_ttl, the default time to live, in seconds
CacheTtl == MaxTtl + 1

EmptyCache == [k \in {} |-> <<>>]

CachingEnabled == manager[1].enable_caching

\* CacheManager.__init__: the in-memory backend (Redis is not reachable),
\* or no backend when caching is disabled
CacheManagerInit(enabled) ==
    /\ manager = None
    /\ manager' = Some([enable_caching |-> enabled,
                        backend |-> IF enabled THEN "memory" ELSE "disabled"])
    /\ UNCHANGED <<cache, cacheOps, given, got, wrap, prev,
                   jobVars, clientVars, runVars, rlVars, gateVars,
                   retryVars, agentVars>>

\* set: ttl = ttl or self._ttl
TtlOr(ttl) == IF ttl = None \/ ttl = Some(0) THEN CacheTtl ELSE ttl[1]

\* InMemoryCache.set: self._cache[key] = (value, now + ttl)
InMemoryCacheSet(entries, key, value, ttl) ==
    [k \in DOMAIN entries \cup {key} |->
        IF k = key THEN <<value, now + TtlOr(ttl)>> ELSE entries[k]]

\* InMemoryCache.get: the value it returns
InMemoryCacheGet(entries, key) ==
    IF key \in DOMAIN entries /\ now < entries[key][2] THEN Some(entries[key][1])
    ELSE None

\* InMemoryCache.get: the entries it leaves, an expired entry deleted
InMemoryCacheAfterGet(entries, key) ==
    IF key \in DOMAIN entries /\ ~(now < entries[key][2])
    THEN [k \in DOMAIN entries \ {key} |-> entries[k]]
    ELSE entries

\* InMemoryCache.delete
InMemoryCacheDelete(entries, key) ==
    [k \in DOMAIN entries \ {key} |-> entries[k]]

\* CacheManager.get / set / delete: nothing is done without a backend
ManagerGet(key) == IF CachingEnabled THEN InMemoryCacheGet(cache, key) ELSE None
ManagerAfterGet(key) ==
    IF CachingEnabled THEN InMemoryCacheAfterGet(cache, key) ELSE cache
ManagerSet(entries, key, value, ttl) ==
    IF CachingEnabled THEN InMemoryCacheSet(entries, key, value, ttl) ELSE entries
ManagerDelete(key) ==
    IF CachingEnabled THEN InMemoryCacheDelete(cache, key) ELSE cache

\* ------------------------------------- SpecCache: the cache as a library
DirectKeys == {<<"k1">>, <<"k2">>}
Values == {"v1", "v2"}
TtlArgs == {None} \cup {Some(t) : t \in 0..MaxTtl}

\* the frame of a call on the cache manager by a client
CacheCall ==
    /\ manager # None
    /\ cacheOps < MaxCacheOps
    /\ cacheOps' = cacheOps + 1
    /\ UNCHANGED <<manager, wrap, prev, jobVars, clientVars, runVars, rlVars, gateVars,
                   retryVars, agentVars>>

CacheSet(key, value, ttl) ==
    /\ CacheCall
    /\ cache' = ManagerSet(cache, key, value, ttl)
    /\ given' = [given EXCEPT ![key] = Some([value |-> value, ttl |-> ttl, at |-> now])]
    /\ UNCHANGED got

CacheGet(key) ==
    /\ CacheCall
    /\ cache' = ManagerAfterGet(key)
    /\ got' = Some([key |-> key, ret |-> ManagerGet(key), at |-> now,
                    set |-> given[key], kept |-> key \in DOMAIN cache'])
    /\ UNCHANGED given

CacheDelete(key) ==
    /\ CacheCall
    /\ cache' = ManagerDelete(key)
    /\ given' = [given EXCEPT ![key] = None]
    /\ UNCHANGED got

\* ------------------------------------------ generate_key and cached
\* the parameters of the cached operation search_repositories(query,
\* max_results), in the order of its signature
Params == <<"query", "max_results">>
\* the order json.dumps(sort_keys=True) puts the names in
SortedNames == <<"max_results", "query">>
Rank(name) == CHOOSE i \in 1..Len(SortedNames) : SortedNames[i] = name

Queries == {"python", "react"}
\* what the caller means to pass, whichever way it is passed
Bindings == {[query |-> q, max_results |-> "5"] : q \in Queries}

\* the orders in which the names of a set can be written down
Orders(names) ==
    {f \in [1..Cardinality(names) -> names] :
        \A i, j \in 1..Cardinality(names) : f[i] = f[j] => i = j}

\* the calls func(*args, **kwargs) that pass binding b: the first k
\* parameters by position, the others by keyword in any order
Supplies(b) ==
    UNION {
        {[args |-> [i \in 1..k |-> b[Params[i]]],
          kwargs |-> [i \in 1..(Len(Params) - k) |-> <<f[i], b[f[i]]>>]] :
            f \in Orders({Params[i] : i \in (k + 1)..Len(Params)})} :
        k \in 0..Len(Params)}

Calls == UNION {Supplies(b) : b \in Bindings}

\* the binding of parameters to values that a call makes
Bound(call) ==
    [name \in {Params[i] : i \in 1..Len(call.args)}
               \cup {call.kwargs[i][1] : i \in 1..Len(call.kwargs)} |->
        IF \E i \in 1..Len(call.args) : Params[i] = name
        THEN call.args[CHOOSE i \in 1..Len(call.args) : Params[i] = name]
        ELSE call.kwargs[CHOOSE i \in 1..Len(call.kwargs) :
                             call.kwargs[i][1] = name][2]]

\* json.dumps(..., sort_keys=True): the items of a dict by sorted key
RECURSIVE SortByName(_)
SortByName(kwargs) ==
    IF kwargs = <<>> THEN <<>>
    ELSE LET i == CHOOSE i \in 1..Len(kwargs) :
                      \A j \in 1..Len(kwargs) :
                          Rank(kwargs[i][1]) <= Rank(kwargs[j][1])
         IN  <<kwargs[i]>>
                 \o SortByName(SubSeq(kwargs, 1, i - 1)
                                   \o SubSeq(kwargs, i + 1, Len(kwargs)))

RECURSIVE DumpItems(_)
DumpItems(items) ==
    IF items = <<>> THEN <<>>
    ELSE <<items[1][1], ": ", items[1][2], ", ">> \o DumpItems(Tail(items))

\* json.dumps({'args': args, 'kwargs': kwargs}, sort_keys=True, default=str)
JsonDumps(args, kwargs) ==
    <<"{args: [">> \o args \o <<"], kwargs: {">>
        \o DumpItems(SortByName(kwargs)) \o <<"}}">>

\* hashlib.md5(...).hexdigest(): the digest of a text, different for the
\* different texts of the model
Md5(text) == <<"md5(">> \o text \o <<")">>

\* CacheManager.generate_key
GenerateKey(args, kwargs) == Md5(JsonDumps(args, kwargs))

\* wrapper: f"{key_prefix}:{func.__name__}:{generate_key(*args, **kwargs)}"
CacheKey(key_prefix, name, call) ==
    <<key_prefix, ":", name, ":">> \o GenerateKey(call.args, call.kwargs)

\* @cached(ttl=3600, key_prefix="github"), the ttl in the model's seconds
DecoratorTtl == Some(MaxTtl)

\* what the wrapped function returns
FuncResults == {"repos A", "repos B"}

\* wrapper with the test of settings.enable_caching left out
PassThrough_Never == FALSE

\* wrapper: if not settings.enable_caching
PassThrough == ~CachingEnabled

\* a call through the wrapper of search_repositories, whose func would
\* return result
CachedCall(call, result) ==
    /\ manager # None
    /\ cacheOps < MaxWrapped
    /\ cacheOps' = cacheOps + 1
    /\ prev' = wrap
    /\ LET cache_key == CacheKey("github", "search_repositories", call)
           cached_result == ManagerGet(cache_key)
       IN  IF PassThrough
           THEN /\ wrap' = Some([call |-> call, key |-> None, invoked |-> 1,
                                 gets |-> 0, sets |-> 0, ret |-> result])
                /\ UNCHANGED cache
           ELSE IF cached_result # None
           THEN /\ wrap' = Some([call |-> call, key |-> Some(cache_key),
                                 invoked |-> 0, gets |-> 1, sets |-> 0,
                                 ret |-> cached_result[1]])
                /\ cache' = ManagerAfterGet(cache_key)
           ELSE /\ wrap' = Some([call |-> call, key |-> Some(cache_key),
                                 invoked |-> 1, gets |-> 1, sets |-> 1,
                                 ret |-> result])
                /\ cache' = ManagerSet(ManagerAfterGet(cache_key), cache_key,
                                       result, DecoratorTtl)
    /\ UNCHANGED <<manager, given, got, jobVars, clientVars, runVars, rlVars, gateVars,
                   retryVars, agentVars>>

InitCacheVars ==
    /\ manager = None
    /\ cache = EmptyCache
    /\ cacheOps = 0
    /\ given = [k \in DirectKeys |-> None]
    /\ got = None
    /\ wrap = None
    /\ prev = None

\* ------------------------------------------------------ retry_on_error
\* what a wrapped client method raises
APIError(message) == [kind |-> "APIError", message |-> <<message>>, api_name |-> "GitHub"]
RateLimitErrorOf(api_name, retry_after) ==
    [kind |-> "RateLimitError",
     message |-> <<"Rate limit exceeded for ", api_name>>
                    \o (IF retry_after # None /\ retry_after # Some(0)
                        THEN <<". Retry after ", ToString(retry_after[1]), " seconds">>
                        ELSE <<>>),
     api_name |-> api_name,
     retry_after |-> retry_after]
RateLimitError == RateLimitErrorOf("GitHub", None)

\* the classes an exception is an instance of
Bases(kind) ==
    IF kind = "RateLimitError" THEN {"RateLimitError", "APIError", "Exception"}
    ELSE {kind, "Exception"}

\* except exceptions as e, with exceptions=(APIError,), catching all
Catches_All(e) == TRUE

\* except exceptions as e, with exceptions=(APIError,)
Catches(e) == "APIError" \in Bases(e.kind)

\* range(max_retries + 1) with one more round
Attempts_OneMore(max_retries) == max_retries + 2

\* for attempt in range(max_retries + 1): the number of rounds
Attempts(max_retries) == max_retries + 1

\* the delay growing by addition
NextDelay_Adds(current_delay, backoff) == current_delay + backoff

\* current_delay *= backoff
NextDelay(current_delay, backoff) == current_delay * backoff

\* the arguments of the decorator and what func does when called
Delays == {1, 2}
Backoffs == {1, 2, 3}
FuncOutcomes ==
    {<<"ok", v>> : v \in FuncResults}
        \cup {<<"raise", e>> : e \in {APIError("timeout"), APIError("HTTP 500"),
                                     RateLimitError, ValueError("bad payload")}}

\* wrapper is entered: current_delay = delay, last_exception = None
RetryCall(max_retries, delay, backoff) ==
    /\ retry.pc = "idle"
    /\ retry' = [pc |-> "attempt", max_retries |-> max_retries, delay |-> delay,
                 backoff |-> backoff, attempt |-> 0, current_delay |-> delay,
                 last_exception |-> None, outcomes |-> <<>>, slept |-> <<>>,
                 ret |-> None, raised |-> None]
    /\ UNCHANGED <<jobVars, clientVars, runVars, rlVars, gateVars, cacheVars, agentVars>>

\* the end of a round that caught an exception: the next round of
\* range(max_retries + 1), or, after the loop, raise last_exception
NextRound(r) ==
    IF r.attempt + 1 < Attempts(r.max_retries)
    THEN [r EXCEPT !.pc = "attempt", !.attempt = @ + 1]
    ELSE [r EXCEPT !.pc = "raised", !.raised = r.last_exception]

\* one round of the loop: func is called; its value is returned, an
\* exception that is not caught propagates, a caught one is kept and, if
\* attempt < max_retries, followed by time.sleep(current_delay)
RetryAttempt(outcome) ==
    /\ retry.pc = "attempt"
    /\ LET r == [retry EXCEPT !.outcomes = Append(@, outcome)] IN
       retry' =
          IF outcome[1] = "ok"
          THEN [r EXCEPT !.pc = "returned", !.ret = Some(outcome[2])]
          ELSE IF ~Catches(outcome[2])
          THEN [r EXCEPT !.pc = "raised", !.raised = Some(outcome[2])]
          ELSE IF r.attempt < r.max_retries
          THEN [r EXCEPT !.pc = "sleep", !.last_exception = Some(outcome[2]),
                         !.slept = Append(@, r.current_delay)]
          ELSE NextRound([r EXCEPT !.last_exception = Some(outcome[2])])
    /\ UNCHANGED <<jobVars, clientVars, runVars, rlVars, gateVars, cacheVars, agentVars>>

\* time.sleep returns: current_delay *= backoff, the round is over
RetrySleep ==
    /\ retry.pc = "sleep"
    /\ retry' = NextRound([retry EXCEPT
                              !.current_delay = NextDelay(@, retry.backoff)])
    /\ UNCHANGED <<jobVars, clientVars, runVars, rlVars, gateVars, cacheVars, agentVars>>

InitRetryVars ==
    retry = [pc |-> "idle", max_retries |-> 0, delay |-> 0, backoff |-> 0,
             attempt |-> 0, current_delay |-> 0, last_exception |-> None,
             outcomes |-> <<>>, slept |-> <<>>, ret |-> None, raised |-> None]

\* ------------------------------------------ the stage nodes as functions
\* run_workflow: initial_state for the arguments given
InitialStateOf(cv_file_path, cv_text) ==
    [InitialState EXCEPT !.cv_file_path = cv_file_path, !.cv_text = cv_text]

CvArguments == {<<Some("cv.pdf"), None>>, <<None, Some("cv text")>>, <<None, None>>}

\* exceptions other than the agent's own that reach a node from its agent
OtherErrors ==
    {APIError("Failed to generate response"), RateLimitErrorOf("LLM", Some(30)),
     ValueError("invalid literal")}

NodeOutcomes(k) == Outcomes(k) \cup {<<"raise", e>> : e \in OtherErrors}

\* except Exception as e, catching the recommender's own errors only
Handles_OwnOnly(e) ==
    e.kind \in {"CVParsingError", "JobAnalysisError", "SkillGapAnalysisError",
                "ProjectRecommendationError"}

\* except Exception as e (every class of the model derives from Exception)
Handles(e) == "Exception" \in Bases(e.kind)

\* the exception raised in the try block of node k, if any
RaisedIn(k, state, outcome) ==
    IF k = 1 /\ state.cv_file_path = None /\ state.cv_text = None
    THEN Some(ValueError("No CV file path or text provided"))
    ELSE IF k \in {3, 4} /\ (state.cv_data = None \/ state.job_requirements = None)
    THEN Some(ValueError("Missing CV data or job requirements"))
    ELSE IF outcome[1] = "raise" THEN Some(outcome[2])
    ELSE None

\* the exception that leaves node k, if any
Escapes(k, state, outcome) ==
    LET e == RaisedIn(k, state, outcome) IN
    IF e # None /\ ~Handles(e[1]) THEN e ELSE None

\* a caller starts over with a new initial state
NodeStart(args) ==
    /\ nodeRun.calls < MaxNodeCalls
    /\ nodeRun' = [nodeRun EXCEPT !.state = InitialStateOf(args[1], args[2]),
                                  !.last = None]
    /\ UNCHANGED <<baseVars, rec, feed, gapCall>>

\* a caller hands the state to node k, whose agent does `outcome`
NodeCall(k, outcome) ==
    /\ nodeRun.calls < MaxNodeCalls
    /\ LET raised == Escapes(k, nodeRun.state, outcome)
           after == IF raised = None THEN RunNode(k, nodeRun.state, outcome)
                    ELSE Entered(nodeRun.state, Stages[k], "", 0)
       IN  nodeRun' = [state |-> after,
                    calls |-> nodeRun.calls + 1,
                    last |-> Some([k |-> k, before |-> nodeRun.state,
                                   outcome |-> outcome, raised |-> raised])]
    /\ UNCHANGED <<baseVars, rec, feed, gapCall>>

InitNodeVars == nodeRun = [state |-> InitialState, calls |-> 0, last |-> None]

NextNodes ==
    \/ \E args \in CvArguments : NodeStart(args)
    \/ \E k \in 1..4 : \E outcome \in NodeOutcomes(k) : NodeCall(k, outcome)

\* --------------------------------------------- ProjectRecommenderAgent
\* the workflow state generate_recommendations_node is given when the three
\* stages before it have succeeded
ReadyState ==
    RunNode(3, RunNode(2, RunNode(1, InitialState, <<"ok", "cv">>),
                          <<"ok", "requirements">>),
            <<"ok", "analysis">>)

\* get_prioritized_gaps: the names of the missing skills, required first
AllGaps == <<"docker", "react", "rust">>
GapLists == {SubSeq(AllGaps, 1, n) : n \in 0..MaxGaps}

\* what the clients and the LLM do when called for a skill
SearchError(api) ==
    IF api = "GitHub" THEN APIError("GitHub API request failed")
    ELSE IF api = "YouTube" THEN RateLimitErrorOf("YouTube", Some(86400))
    ELSE RateLimitErrorOf("google", Some(3600))
Found(api, skill) == <<api \o " resource on " \o skill>>
ApiOutcomes(api, skill) == {<<"ok", Found(api, skill)>>, <<"raise", SearchError(api)>>}
LlmOutcomes(skill) ==
    {<<"ok", "generated for " \o skill>>, <<"raise", APIError("Failed to generate response")>>}

\* try: return <the call> / except Exception: return <fallback>
Guarded(outcome, fallback) ==
    IF outcome[1] = "ok" THEN [ret |-> outcome[2], raised |-> None]
    ELSE IF Handles(outcome[2]) THEN [ret |-> fallback, raised |-> None]
    ELSE [ret |-> fallback, raised |-> Some(outcome[2])]

\* _search_github_resources without its try / except
SearchGithubResources_Raises(outcome) ==
    IF outcome[1] = "ok" THEN [ret |-> outcome[2], raised |-> None]
    ELSE [ret |-> <<>>, raised |-> Some(outcome[2])]

\* _search_github_resources, _search_youtube_resources, _search_web_resources
SearchGithubResources(outcome) == Guarded(outcome, <<>>)
SearchYoutubeResources(outcome) == Guarded(outcome, <<>>)
SearchWebResources(outcome) == Guarded(outcome, <<>>)

\* _generate_project_ideas, _generate_learning_path: the LLM, or the default
GenerateProjectIdeas(skill, outcome) == Guarded(outcome, "Learn " \o skill)
GenerateLearningPath(skill, outcome) ==
    Guarded(outcome, "1. Learn " \o skill \o " fundamentals")

\* _generate_skill_recommendation: o is what the five collaborators do;
\* the first exception that leaves a helper leaves this function
GenerateSkillRecommendation(skill, o) ==
    LET projects == GenerateProjectIdeas(skill, o.projects)
        github == SearchGithubResources(o.github)
        youtube == SearchYoutubeResources(o.youtube)
        web == SearchWebResources(o.web)
        path == GenerateLearningPath(skill, o.path)
        steps == <<projects, github, youtube, web, path>>
        bad == {i \in 1..5 : steps[i].raised # None}
    IN  IF bad # {}
        THEN [ret |-> None,
              raised |-> steps[CHOOSE i \in bad : \A m \in bad : i <= m].raised]
        ELSE [ret |-> Some([skill_gap |-> skill,
                            recommended_projects |-> projects.ret,
                            github_resources |-> github.ret,
                            youtube_resources |-> youtube.ret,
                            web_resources |-> web.ret,
                            learning_path |-> path.ret]),
              raised |-> None]

SkillOutcomes(skill) ==
    [projects : LlmOutcomes(skill), github : ApiOutcomes("GitHub", skill),
     youtube : ApiOutcomes("YouTube", skill), web : ApiOutcomes("web", skill),
     path : LlmOutcomes(skill)]

\* generate_recommendations: except Exception as e: raise ProjectRecommendationError
Wrapped(e) ==
    [kind |-> "ProjectRecommendationError",
     message |-> <<"Failed to generate recommendations: ">> \o Str(e)]

\* the call ends (returns a result or raises) and the node goes on with it
RecEnds(outcome) ==
    [rec EXCEPT !.pc = "ended",
                !.outcome = Some(outcome),
                !.state = Some(GenerateRecommendationsNode(ReadyState, outcome))]

\* generate_recommendations_node calls generate_recommendations: the gap
\* analysis comes first
RecStart(gaps, analysis) ==
    /\ rec.pc = "idle"
    /\ rec' = IF analysis[1] = "raise"
              THEN [RecEnds(<<"raise", Wrapped(analysis[2])>>)
                       EXCEPT !.gaps = gaps, !.analysis = Some(analysis)]
              ELSE [rec EXCEPT !.pc = "skills", !.gaps = gaps, !.todo = gaps,
                               !.analysis = Some(analysis)]
    /\ UNCHANGED <<baseVars, nodeRun, feed, gapCall>>

\* one round of "for skill_gap in skill_gaps[:10]"
RecSkill(o) ==
    /\ rec.pc = "skills"
    /\ rec.todo # <<>>
    /\ LET r == GenerateSkillRecommendation(Head(rec.todo), o)
           seen == [rec EXCEPT !.searches = Append(@, o)]
       IN  rec' = IF r.raised # None
                  THEN [RecEnds(<<"raise", Wrapped(r.raised[1])>>)
                           EXCEPT !.searches = seen.searches]
                  ELSE [seen EXCEPT !.todo = Tail(@),
                                    !.recommendations = Append(@, r.ret[1])]
    /\ UNCHANGED <<baseVars, nodeRun, feed, gapCall>>

\* _generate_overall_assessment (the LLM or the fallback text),
\* _estimate_preparation_time, and the RecommendationResult returned
RecAssess(o) ==
    /\ rec.pc = "skills"
    /\ rec.todo = <<>>
    /\ LET assessment == Guarded(o, "You have a solid foundation for this role.") IN
       rec' = IF assessment.raised # None
              THEN RecEnds(<<"raise", Wrapped(assessment.raised[1])>>)
              ELSE RecEnds(<<"ok", RecommendationResult(
                                      [skill_gap_recommendations |-> rec.recommendations,
                                       overall_assessment |-> assessment.ret])>>)
    /\ UNCHANGED <<baseVars, nodeRun, feed, gapCall>>

InitRecVars ==
    rec = [pc |-> "idle", analysis |-> None, gaps |-> <<>>, todo |-> <<>>,
           recommendations |-> <<>>,
           searches |-> <<>>, outcome |-> None, state |-> None]

NextRecommend ==
    \/ \E gaps \in GapLists :
           \E analysis \in {<<"ok", "analysis">>, <<"raise", SkillGapAnalysisError>>} :
               RecStart(gaps, analysis)
    \/ \E o \in SkillOutcomes(Head(rec.todo \o <<"none">>)) : RecSkill(o)
    \/ \E o \in LlmOutcomes("assessment") : RecAssess(o)

\* ------------------------------------- stream_progress.event_generator
\* The generator is a coroutine of the event loop: it runs when no job-run
\* holds the loop, and gives the loop up at its yield and at its sleep.
\* the job whose run the stream is about
Streamed == 1

\* event_data
EventData(job) ==
    [status |-> job.status, progress |-> job.progress_percentage,
     message |-> job.current_step, error |-> job.error]

\* "Stop streaming if job is done": job.status of the object get_job returned
StopsStreaming == IsTerminal(jobs[feed.job])

\* GET /api/stream/{job_id}: the response starts to iterate the generator
StreamProgress(job_id) ==
    /\ loop = 0
    /\ feed.pc = "idle"
    /\ job_id \in Issued
    /\ feed' = [feed EXCEPT !.pc = "top", !.job_id = job_id]
    /\ UNCHANGED <<baseVars, nodeRun, rec, gapCall>>

\* GET /api/status/{job_id}: a handler of the event loop; it reads the job
\* and answers, and changes nothing
GetJobStatus(job_id) ==
    /\ loop = 0
    /\ job_id \in Issued
    /\ UNCHANGED <<baseVars, agentVars>>

\* top of the while loop: get_job, then "Job not found" and the end, or the
\* event built from the job's fields and yielded
FeedYield ==
    /\ loop = 0
    /\ feed.pc = "top"
    /\ Len(feed.sent) < MaxEvents
    /\ LET job == GetJob(feed.job_id) IN
       feed' = IF job = 0
               THEN [feed EXCEPT !.pc = "ended", !.job = 0, !.not_found = TRUE]
               ELSE [feed EXCEPT !.pc = "yielded", !.job = job,
                                 !.sent = Append(@, EventData(jobs[job]))]
    /\ UNCHANGED <<baseVars, nodeRun, rec, gapCall>>

\* the generator is resumed after its yield: break, or asyncio.sleep(1)
FeedResume ==
    /\ loop = 0
    /\ feed.pc = "yielded"
    /\ feed' = [feed EXCEPT !.pc = IF StopsStreaming THEN "ended" ELSE "sleeping"]
    /\ UNCHANGED <<baseVars, nodeRun, rec, gapCall>>

\* asyncio.sleep(1) returns
FeedWake ==
    /\ loop = 0
    /\ feed.pc = "sleeping"
    /\ feed' = [feed EXCEPT !.pc = "top"]
    /\ UNCHANGED <<baseVars, nodeRun, rec, gapCall>>

InitFeedVars ==
    feed = [pc |-> "idle", job_id |-> 0, job |-> 0, sent |-> <<>>, not_found |-> FALSE]

\* one client: it posts its CV, streams the progress of the job it was given,
\* and the job-run of that job takes place; the cleanup thread runs
NextFeed ==
    \/ AnalyzeCv
    \/ StreamProgress(Streamed)
    \/ GetJobStatus(Streamed)
    \/ FeedYield
    \/ FeedResume
    \/ FeedWake
    \/ StartRun(Streamed)
    \/ InitProgress(Streamed)
    \/ EnterWorkflow(Streamed)
    \/ InvokeRaises(Streamed, InvokeError)
    \/ SetupRaises(Streamed, CompileError)
    \/ \E k \in 1..4 : \E outcome \in Outcomes(k) : Stage(Streamed, k, outcome)
    \/ ErrorHandler(Streamed)
    \/ SyncProgress(Streamed)
    \/ Finish(Streamed)
    \/ SweeperWakes
    \/ Sweep
    \/ Tick

\* ------------------------------------------------ SkillGapAnalyzerAgent
\* A str is here the sequence of its characters.
UpperCase == <<"A", "C", "E", "J", "N", "P", "R", "S", "T">>
LowerCase == <<"a", "c", "e", "j", "n", "p", "r", "s", "t">>

\* str.lower, str.strip and str.replace(ch, "")
Lower(c) ==
    IF \E i \in 1..Len(UpperCase) : UpperCase[i] = c
    THEN LowerCase[CHOOSE i \in 1..Len(UpperCase) : UpperCase[i] = c]
    ELSE c
StrLower(s) == [i \in 1..Len(s) |-> Lower(s[i])]

Whitespace == {" ", "\t", "\n"}
RECURSIVE LStrip(_)
LStrip(s) == IF s # <<>> /\ Head(s) \in Whitespace THEN LStrip(Tail(s)) ELSE s
RECURSIVE RStrip(_)
RStrip(s) ==
    IF s # <<>> /\ s[Len(s)] \in Whitespace THEN RStrip(SubSeq(s, 1, Len(s) - 1)) ELSE s
StrStrip(s) == RStrip(LStrip(s))
Without(s, ch) == SelectSeq(s, LAMBDA c : c # ch)

\* the loop body of _normalize_skills that leaves the hyphens in
NormalizeSkill_KeepsHyphens(skill_name) ==
    Without(Without(StrStrip(StrLower(skill_name)), "."), " ")

\* the loop body of _normalize_skills
NormalizeSkill(skill_name) ==
    Without(Without(Without(StrStrip(StrLower(skill_name)), "."), "-"), " ")

\* _normalize_skills
NormalizeSkills(skills) == {NormalizeSkill(skills[i]) : i \in 1..Len(skills)}

\* difflib.SequenceMatcher(None, a, b) on short strings (no junk, no autojunk):
\* the length of the block that starts at a[i], b[j] inside a[..ahi], b[..bhi]
RECURSIVE CommonLen(_, _, _, _, _, _)
CommonLen(a, b, i, j, ahi, bhi) ==
    IF i > ahi \/ j > bhi THEN 0
    ELSE IF a[i] # b[j] THEN 0
    ELSE 1 + CommonLen(a, b, i + 1, j + 1, ahi, bhi)

\* find_longest_match: the longest block, the earliest in a, then in b
FindLongestMatch(a, b, alo, ahi, blo, bhi) ==
    LET starts == {p \in (alo..ahi) \X (blo..bhi) : a[p[1]] = b[p[2]]}
        size == [p \in starts |-> CommonLen(a, b, p[1], p[2], ahi, bhi)]
    IN  IF starts = {} THEN <<alo, blo, 0>>
        ELSE LET best == CHOOSE p \in starts :
                            \A q \in starts :
                                \/ size[p] > size[q]
                                \/ /\ size[p] = size[q]
                                   /\ \/ p[1] < q[1]
                                      \/ p[1] = q[1] /\ p[2] <= q[2]
             IN  <<best[1], best[2], size[best]>>

\* get_matching_blocks: the sizes of the blocks, summed
RECURSIVE MatchingSize(_, _, _, _, _, _)
MatchingSize(a, b, alo, ahi, blo, bhi) ==
    IF alo > ahi \/ blo > bhi THEN 0
    ELSE LET m == FindLongestMatch(a, b, alo, ahi, blo, bhi) IN
         IF m[3] = 0 THEN 0
         ELSE m[3] + MatchingSize(a, b, alo, m[1] - 1, blo, m[2] - 1)
                   + MatchingSize(a, b, m[1] + m[3], ahi, m[2] + m[3], bhi)

\* ratio() >= similarity_threshold, the threshold in hundredths:
\* ratio() is 2.0 * matches / length, and 1.0 for two empty strings
SimilarAtLeast(a, b, similarity_threshold) ==
    LET length == Len(a) + Len(b) IN
    IF length = 0 THEN 100 >= similarity_threshold
    ELSE 200 * MatchingSize(a, b, 1, Len(a), 1, Len(b)) >= similarity_threshold * length

\* similarity_threshold: float = 0.85
DefaultThreshold == 85

\* _find_matches with the exact test only
FindMatches_ExactOnly(cv_skills, job_skills, similarity_threshold) ==
    job_skills \cap cv_skills

\* _find_matches with the fuzzy test only
FindMatches_FuzzyOnly(cv_skills, job_skills, similarity_threshold) ==
    {job_skill \in job_skills :
        \E cv_skill \in cv_skills :
            SimilarAtLeast(job_skill, cv_skill, similarity_threshold)}

\* _find_matches
FindMatches(cv_skills, job_skills, similarity_threshold) ==
    {job_skill \in job_skills :
        \/ job_skill \in cv_skills
        \/ \E cv_skill \in cv_skills :
               SimilarAtLeast(job_skill, cv_skill, similarity_threshold)}

\* round(x, 1) of x = 100 * n / d, in tenths: to the nearest, ties to even
RoundTenths(n, d) ==
    LET q == (1000 * n) \div d
        r == (1000 * n) % d
    IN  IF 2 * r < d THEN q
        ELSE IF 2 * r > d THEN q + 1
        ELSE IF q % 2 = 0 THEN q ELSE q + 1

\* match_percentage that is 0.0 when nothing is required
MatchPercentage_ZeroWhenNoneRequired(matched, total_required) ==
    IF total_required > 0 THEN RoundTenths(matched, total_required) ELSE 0

\* analyze_gaps: "Calculate match percentage", rounded, in tenths
MatchPercentage(matched, total_required) ==
    IF total_required > 0 THEN RoundTenths(matched, total_required) ELSE 1000

\* analyze_gaps, given the three lists of names: the fields of the
\* SkillMatchAnalysis that the skills decide
AnalyzeGaps(cv_names, required_names, preferred_names) ==
    LET cv_skills == NormalizeSkills(cv_names)
        required_skills == NormalizeSkills(required_names)
        preferred_skills == NormalizeSkills(preferred_names)
        matched_required == FindMatches(cv_skills, required_skills, DefaultThreshold)
        matched_preferred == FindMatches(cv_skills, preferred_skills, DefaultThreshold)
    IN  [total_required_skills |-> Cardinality(required_skills),
         matched_skills |-> matched_required \cup matched_preferred,
         missing_required_skills |-> required_skills \ matched_required,
         missing_preferred_skills |-> preferred_skills \ matched_preferred,
         match_percentage |-> MatchPercentage(Cardinality(matched_required),
                                              Cardinality(required_skills))]

\* the skill names of the calls
Python == <<"P", "y", "t", "h", "o", "n">>
Python3 == <<"P", "y", "t", "h", "o", "n", " ", "3">>
React == <<"R", "e", "a", "c", "t">>
ReactJs == <<"R", "e", "a", "c", "t", ".", "j", "s">>
NodeJs == <<"N", "o", "d", "e", ".", "j", "s">>
JavaScript == <<"J", "a", "v", "a", "S", "c", "r", "i", "p", "t">>
TypeScript == <<"T", "y", "p", "e", "S", "c", "r", "i", "p", "t">>
NodeJsSpaced == <<"N", "o", "d", "e", " ", "J", "S">>
SkillNames == {Python, Python3, React, NodeJs, NodeJsSpaced, JavaScript}

\* a list of the names in S, in some order
RECURSIVE ListOf(_)
ListOf(S) ==
    IF S = {} THEN <<>>
    ELSE LET x == CHOOSE y \in S : TRUE IN <<x>> \o ListOf(S \ {x})

SkillLists == {ListOf(S) : S \in {T \in SUBSET SkillNames : Cardinality(T) <= MaxSkills}}
PreferredLists == {<<>>, <<TypeScript>>}
Thresholds == {0, DefaultThreshold, 100, 150}

\* names made of a few characters, and the lists of names to normalize
NameChars == {"A", "a", ".", "-", " ", "\t"}
RECURSIVE NamesOfLen(_)
NamesOfLen(n) ==
    IF n = 0 THEN {<<>>}
    ELSE {<<c>> \o s : c \in NameChars, s \in NamesOfLen(n - 1)}
GeneratedNames == UNION {NamesOfLen(n) : n \in 0..MaxNameLen}
Spellings == {ReactJs, <<"R", "E", "A", "C", "T", "-", "J", "S">>, <<" ", "r", "e", "a", "c", "t", " ", "j", "s", " ">>}
NameLists ==
    {<<n>> : n \in GeneratedNames}
        \cup {<<n, m>> : n \in Spellings, m \in Spellings \cup {NodeJs}}
        \cup {<<ReactJs, NodeJs, Python3>>, <<Python3, ReactJs, NodeJs>>, <<>>}

\* a caller normalizes a list of names
NormalizeCall(skills) ==
    /\ gapCall.op = "none"
    /\ gapCall' = [op |-> "_normalize_skills", args |-> <<skills>>,
                   ret |-> NormalizeSkills(skills)]
    /\ UNCHANGED <<baseVars, nodeRun, rec, feed>>

\* the caller normalizes what it got
NormalizeAgain ==
    /\ gapCall.op = "_normalize_skills"
    /\ LET skills == ListOf(gapCall.ret) IN
       gapCall' = [op |-> "_normalize_skills again", args |-> <<skills>>,
                   ret |-> NormalizeSkills(skills)]
    /\ UNCHANGED <<baseVars, nodeRun, rec, feed>>

\* a caller matches two sets of normalized names
FindMatchesCall(cv_names, job_names, similarity_threshold) ==
    /\ gapCall.op = "none"
    /\ LET cv_skills == NormalizeSkills(cv_names)
           job_skills == NormalizeSkills(job_names)
       IN  gapCall' = [op |-> "_find_matches",
                       args |-> <<cv_skills, job_skills, similarity_threshold>>,
                       ret |-> FindMatches(cv_skills, job_skills, similarity_threshold)]
    /\ UNCHANGED <<baseVars, nodeRun, rec, feed>>

\* identify_gaps_node, generate_recommendations: analyze_gaps
AnalyzeGapsCall(cv_names, required_names, preferred_names) ==
    /\ gapCall.op = "none"
    /\ gapCall' = [op |-> "analyze_gaps",
                   args |-> <<cv_names, required_names, preferred_names>>,
                   ret |-> AnalyzeGaps(cv_names, required_names, preferred_names)]
    /\ UNCHANGED <<baseVars, nodeRun, rec, feed>>

InitSkillVars == gapCall = [op |-> "none", args |-> <<>>, ret |-> {}]

NextSkills ==
    \/ \E skills \in NameLists : NormalizeCall(skills)
    \/ NormalizeAgain
    \/ \E cv_names \in SkillLists, job_names \in SkillLists, th \in Thresholds :
           FindMatchesCall(cv_names, job_names, th)
    \/ \E cv_names \in SkillLists, required_names \in SkillLists,
          preferred_names \in PreferredLists :
           AnalyzeGapsCall(cv_names, required_names, preferred_names)

\* list(s) of a set of str: the elements in the order of their hashes, which
\* changes from one interpreter run to the next (hash randomization), so any
\* order
Orderings(S) ==
    {order \in [1..Cardinality(S) -> S] :
        \A i, j \in 1..Cardinality(S) : i # j => order[i] # order[j]}

\* SkillGap(skill_name, priority, category, impact); the requirements of the
\* model carry no category
SkillGap(skill_name, priority) ==
    [skill_name |-> skill_name,
     priority |-> priority,
     category |-> None,
     impact |-> IF priority = "required"
                THEN "Critical for role - this is a required skill"
                ELSE "Nice to have - would strengthen your application"]

\* get_prioritized_gaps, given analysis.missing_required_skills and
\* analysis.missing_preferred_skills as the lists analyze_gaps built
GetPrioritizedGaps(missing_required_skills, missing_preferred_skills) ==
    [i \in 1..Len(missing_required_skills) |->
        SkillGap(missing_required_skills[i], "required")]
    \o [i \in 1..Len(missing_preferred_skills) |->
        SkillGap(missing_preferred_skills[i], "preferred")]

CvLists == {skills \in SkillLists : Len(skills) <= 1}
PreferredSkillLists == PreferredLists \cup {<<TypeScript, Python3>>, <<Python3, TypeScript>>}

\* generate_recommendations: get_prioritized_gaps(cv_data, job_requirements)
PrioritizedGapsCall(cv_names, required_names, preferred_names) ==
    /\ gapCall.op = "none"
    /\ LET analysis == AnalyzeGaps(cv_names, required_names, preferred_names) IN
       \E missing_required_skills \in Orderings(analysis.missing_required_skills),
          missing_preferred_skills \in Orderings(analysis.missing_preferred_skills) :
           gapCall' = [op |-> "get_prioritized_gaps",
                       args |-> <<cv_names, required_names, preferred_names>>,
                       ret |-> GetPrioritizedGaps(missing_required_skills,
                                                  missing_preferred_skills)]
    /\ UNCHANGED <<baseVars, nodeRun, rec, feed>>

NextGaps ==
    \E cv_names \in CvLists, required_names \in SkillLists,
       preferred_names \in PreferredSkillLists :
        PrioritizedGapsCall(cv_names, required_names, preferred_names)

\* ------------------------------------------------- the integration clients
\* GitHubSearchClient.search_repositories, YouTubeSearchClient.search_videos,
\* GoogleSearchClient.search and LLMClient.generate, called one after the
\* other by the agents of a job-run: retry_on_error around cached (the three
\* searches) around the method, which acquires a token and sends a request.
Clients == {"GitHub", "YouTube", "Google", "LLM"}
SearchClients == {"GitHub", "YouTube", "Google"}

\* RateLimiter.__init__: the services that get a TokenBucket
Services == {"github", "youtube", "llm"}

\* the service name the client passes to rate_limiter.acquire
ServiceOf(client) ==
    CASE client = "GitHub" -> "github"
      [] client = "YouTube" -> "youtube"
      [] client = "Google" -> "google"
      [] client = "LLM" -> "llm"

\* key_prefix and func.__name__ of the cached method
KeyPrefix(client) ==
    CASE client = "GitHub" -> <<"github", "search_repositories">>
      [] client = "YouTube" -> <<"youtube", "search_videos">>
      [] client = "Google" -> <<"google_search", "search">>

\* the key of the wrapper for client.method(query)
ClientKey(client, query) ==
    CacheKey(KeyPrefix(client)[1], KeyPrefix(client)[2],
             [args |-> <<query>>, kwargs |-> <<>>])

\* one bucket serving every service
LimiterOf_Shared(service) == "github"

\* self.limiters[service]
LimiterOf(service) == service

\* TokenBucket.consume on a bucket b of rate Rate: the refill
BucketRefilled(b) ==
    Min(Capacity, b.tokens + ((clock - b.last_update) * Rate) \div Rate)

\* TokenBucket.consume(1): the bucket it leaves
BucketConsume(b) ==
    [tokens |-> IF BucketRefilled(b) >= Units(1)
                THEN BucketRefilled(b) - Units(1)
                ELSE BucketRefilled(b),
     last_update |-> clock]

\* TokenBucket.wait_time(), read right after the consume that failed
BucketWaitTime(b) ==
    IF b.tokens >= Units(1) THEN 0 ELSE ((Units(1) - b.tokens) * Rate) \div Rate

\* what the remote end does with a request
SUCCESS == "200"
Responses ==
    {<<SUCCESS, v>> : v \in FuncResults}
        \cup {<<"RequestException", "timeout">>, <<"rate limited", "quota">>}

IdleClient ==
    [pc |-> "idle", client |-> "none", query |-> "none", attempt |-> 0,
     max_retries |-> 0, current_delay |-> 0, last_exception |-> None,
     raised |-> None, ret |-> None, acquired |-> "none", waited |-> FALSE,
     wake |-> 0, lookups |-> 0, acquires |-> 0, requests |-> 0, prior |-> None,
     looked |-> 0]

\* the application builds its CacheManager and RateLimiter from the settings
ClientsSetup(caching, limiting) ==
    /\ manager = None /\ limiter = None
    /\ manager' = Some([enable_caching |-> caching,
                        backend |-> IF caching THEN "memory" ELSE "disabled"])
    /\ limiter' = Some([enable_rate_limiting |-> limiting, rate |-> Rate])
    /\ buckets' = IF limiting
                  THEN [s \in Services |-> [tokens |-> Capacity, last_update |-> clock]]
                  ELSE [s \in {} |-> 0]
    /\ UNCHANGED <<jobVars, clientVars, runVars, rlVars, cache, cacheOps, given, got,
                   wrap, prev, retryVars, nodeRun, rec, feed, gapCall, late,
                   cli, wire, answered, cliCalls, wr, rd>>

\* the frame of a step of the client call
ClientStep ==
    /\ manager # None /\ limiter # None
    /\ UNCHANGED <<jobVars, clientVars, runVars, rlVars, gateVars, manager, cacheOps,
                   given, got, wrap, prev, retryVars, nodeRun, rec, feed, gapCall,
                   late, cliCalls, wr, rd>>

\* an agent calls client.method(query): the retry wrapper is entered
ClientCall(client, query) ==
    /\ manager # None /\ limiter # None
    /\ cli.pc \in {"idle", "returned", "raised"}
    /\ cliCalls < MaxClientCalls
    /\ cliCalls' = cliCalls + 1
    /\ cli' = [IdleClient EXCEPT !.pc = "attempt", !.client = client, !.query = query,
                                 !.max_retries = MaxRetries, !.current_delay = 2]
    /\ UNCHANGED <<jobVars, clientVars, runVars, rlVars, gateVars, cacheVars,
                   retryVars, nodeRun, rec, feed, gapCall, late,
                   buckets, wire, answered, wr, rd>>

\* wrapper with `if cached_result:`
Hit_IfTruthy(cached_result) == cached_result # None /\ cached_result # Some("[]")

\* wrapper: `if cached_result is not None`
Hit(cached_result) == cached_result # None

\* a round of the retry loop calls the cached wrapper: pass-through, hit
\* (the value is returned) or miss (the method is called); generate has no
\* cached wrapper
ClientLookup ==
    /\ ClientStep
    /\ cli.pc = "attempt"
    /\ IF cli.client \notin SearchClients \/ PassThrough
       THEN /\ cli' = [cli EXCEPT !.pc = "method"]
            /\ UNCHANGED cache
       ELSE LET cache_key == ClientKey(cli.client, cli.query)
                cached_result == ManagerGet(cache_key)
                first == cli.attempt = 0
                seen == [cli EXCEPT !.lookups = @ + 1,
                                    !.prior = IF first THEN answered[cli.client, cli.query]
                                              ELSE @,
                                    !.looked = IF first THEN now ELSE @]
            IN  /\ cache' = ManagerAfterGet(cache_key)
                /\ cli' = IF Hit(cached_result)
                          THEN [seen EXCEPT !.pc = "returned", !.ret = cached_result]
                          ELSE [seen EXCEPT !.pc = "method"]
    /\ UNCHANGED <<buckets, wire, answered>>

\* what the wrappers do with the value the method returned: cache it
\* (searches, caching enabled) and return it
Returned(value) ==
    /\ cli' = [cli EXCEPT !.pc = "returned", !.ret = Some(value),
                          !.requests = IF cli.pc = "send" THEN @ + 1 ELSE @]
    /\ IF cli.client \in SearchClients /\ ~PassThrough
       THEN /\ cache' = ManagerSet(cache, ClientKey(cli.client, cli.query), value,
                                   DecoratorTtl)
            /\ answered' = [answered EXCEPT ![cli.client, cli.query] =
                                Some([value |-> value, at |-> now])]
       ELSE UNCHANGED <<cache, answered>>

\* what the wrappers do with an exception of the method: cached lets it
\* pass, retry_on_error(exceptions=(APIError,)) catches it and sleeps, or
\* leaves the loop and raises the last one
Raised(e) ==
    /\ LET r == [cli EXCEPT !.requests = @ + 1] IN
       cli' = IF ~Catches(e) THEN [r EXCEPT !.pc = "raised", !.raised = Some(e)]
              ELSE IF r.attempt < r.max_retries
              THEN [r EXCEPT !.pc = "sleep", !.last_exception = Some(e)]
              ELSE NextRound([r EXCEPT !.last_exception = Some(e)])
    /\ UNCHANGED <<cache, answered>>

\* the method up to its request (the Google client has its credentials):
\* rate_limiter.acquire(service, wait=True) returns True at once when rate
\* limiting is disabled or the service has no bucket, else after a consume,
\* or sleeps for wait_time()
ClientAcquire ==
    /\ ClientStep
    /\ cli.pc = "method"
    /\ LET service == ServiceOf(cli.client)
           took == [cli EXCEPT !.acquires = @ + 1]
       IN  IF service \notin DOMAIN buckets
           THEN /\ cli' = [took EXCEPT !.pc = "send", !.acquired = "no bucket"]
                /\ UNCHANGED buckets
           ELSE LET b == buckets[LimiterOf(service)] IN
                /\ buckets' = [buckets EXCEPT ![LimiterOf(service)] = BucketConsume(b)]
                /\ cli' = IF BucketRefilled(b) >= Units(1)
                          THEN [took EXCEPT !.pc = "send", !.acquired = "token"]
                          ELSE [took EXCEPT !.pc = "wait", !.waited = TRUE,
                                            !.wake = clock + BucketWaitTime(BucketConsume(b))]
    /\ UNCHANGED <<cache, wire, answered>>

\* acquire: time.sleep(wait_time) is over; return limiter.consume(tokens),
\* a value the method does not look at
ClientWake ==
    /\ ClientStep
    /\ cli.pc = "wait"
    /\ clock >= cli.wake
    /\ LET key == LimiterOf(ServiceOf(cli.client))
           b == buckets[key]
       IN  /\ buckets' = [buckets EXCEPT ![key] = BucketConsume(b)]
           /\ cli' = [cli EXCEPT !.pc = "send",
                                 !.acquired = IF BucketRefilled(b) >= Units(1)
                                              THEN "token" ELSE "False"]
    /\ UNCHANGED <<cache, wire, answered>>

\* search: `except requests.exceptions.RequestException: return []`
GoogleSwallows == cli.client = "Google"

\* requests.get / llm.invoke and the rest of the method, back through the
\* wrappers
ClientSend(response) ==
    /\ ClientStep
    /\ cli.pc = "send"
    /\ wire' = Some([client |-> cli.client, query |-> cli.query,
                      acquired |-> cli.acquired, response |-> response[1],
                      limited |-> limiter[1].enable_rate_limiting])
    /\ IF response[1] = SUCCESS THEN Returned(response[2])
       ELSE IF response[1] = "rate limited"
       THEN Raised(RateLimitErrorOf(ServiceOf(cli.client), Some(3600)))
       ELSE IF GoogleSwallows THEN Returned("[]")
       ELSE Raised(APIError(response[2]))
    /\ UNCHANGED buckets

\* retry_on_error: time.sleep(current_delay) returns, the next round
ClientRetry ==
    /\ ClientStep
    /\ cli.pc = "sleep"
    /\ cli' = NextRound([cli EXCEPT !.current_delay = NextDelay(@, 2)])
    /\ UNCHANGED <<cache, buckets, wire, answered>>

\* time.time() advances: the cache's clock and the buckets' clock are one
TimePasses ==
    /\ now < MaxTime
    /\ now' = now + 1
    /\ clock' = clock + 1
    /\ UNCHANGED <<jobs, store, nextId, clientVars, runVars, tokens, last_update, acq,
                   started, ledger, fresh, utilVars>>

InitClientsVars ==
    /\ buckets = [s \in {} |-> 0]
    /\ cli = IdleClient
    /\ wire = None
    /\ answered = [k \in SearchClients \X Queries |-> None]
    /\ cliCalls = 0

NextClients ==
    \/ \E caching, limiting \in BOOLEAN : ClientsSetup(caching, limiting)
    \/ \E client \in Clients, query \in Queries : ClientCall(client, query)
    \/ ClientLookup
    \/ ClientAcquire
    \/ ClientWake
    \/ \E response \in Responses : ClientSend(response)
    \/ ClientRetry
    \/ TimePasses

\* ------------------------------- SpecTorn: a reader beside JobState.update
\* update_job holds the manager's lock while JobState.update assigns the
\* keyword arguments one setattr at a time; get_job takes the lock for the
\* lookup only, and the caller reads the fields of the object it got
\* without it.
Writers == {"set_completed", "set_failed"}
Endpoints == {"get_results", "get_job_status"}

\* the keyword arguments in the order of the call, which is the order
\* kwargs.items() yields them in
KwargsOf(method) ==
    CASE method = "set_completed" ->
            <<<<"status", COMPLETED>>, <<"progress_percentage", 100>>,
              <<"current_step", "Completed">>, <<"result", Some("planA")>>>>
      [] method = "set_failed" ->
            <<<<"status", FAILED>>, <<"current_step", "Failed">>,
              <<"error", Some(ClientError)>>>>

\* the attributes of the job the endpoint reads, in the order of the
\* arguments of its response
ReadsOf(endpoint) ==
    CASE endpoint = "get_results" -> <<"status", "result", "error">>
      [] endpoint = "get_job_status" ->
            <<"status", "progress_percentage", "current_step", "updated_at", "error">>

tornFrame ==
    <<now, store, nextId, clientVars, runVars, rlVars, gateVars, cacheVars, retryVars,
      nodeRun, rec, feed, gapCall, late, buckets, cli, wire, answered, cliCalls>>

\* create_job, which needs the lock
TornCreate ==
    /\ wr.pc = "idle"
    /\ StoreCreate
    /\ UNCHANGED <<wr, rd>>

\* update_job: the lock is taken, the id is found, update(**kwargs) begins
WriterBegins(job_id, method) ==
    /\ wr.pc = "idle"
    /\ job_id \in store
    /\ ~IsTerminal(jobs[job_id])
    /\ wr' = [pc |-> "update", job_id |-> job_id, method |-> method,
              kwargs |-> KwargsOf(method)]
    /\ UNCHANGED <<jobs, rd, tornFrame>>

\* update: setattr(self, key, value) for the next keyword argument
WriterSetattr ==
    /\ wr.pc = "update"
    /\ wr.kwargs # <<>>
    /\ LET key == Head(wr.kwargs)[1]
           value == Head(wr.kwargs)[2]
       IN  jobs' = [jobs EXCEPT ![wr.job_id][key] = value]
    /\ wr' = [wr EXCEPT !.kwargs = Tail(@)]
    /\ UNCHANGED <<rd, tornFrame>>

\* update: self.updated_at = datetime.utcnow(); the lock is released
WriterEnds ==
    /\ wr.pc = "update"
    /\ wr.kwargs = <<>>
    /\ jobs' = [jobs EXCEPT ![wr.job_id].updated_at = now]
    /\ wr' = [wr EXCEPT !.pc = "idle"]
    /\ UNCHANGED <<rd, tornFrame>>

\* a request handler on another thread: job = job_manager.get_job(job_id),
\* under the lock
ReaderGets(job_id, endpoint) ==
    /\ wr.pc = "idle"
    /\ rd.pc \in {"idle", "done"}
    /\ GetJob(job_id) # 0
    /\ rd' = [pc |-> "holding", job_id |-> GetJob(job_id), endpoint |-> endpoint,
              reads |-> ReadsOf(endpoint), sees |-> [k \in {} |-> 0]]
    /\ UNCHANGED <<jobs, wr, tornFrame>>

\* the handler evaluates the next job.<attribute> of its response
ReaderReads ==
    /\ rd.pc = "holding"
    /\ LET key == Head(rd.reads)
           rest == Tail(rd.reads)
       IN  rd' = [rd EXCEPT !.reads = rest,
                            !.sees = [k \in DOMAIN rd.sees \cup {key} |->
                                        IF k = key THEN jobs[rd.job_id][key]
                                        ELSE rd.sees[k]],
                            !.pc = IF rest = <<>> THEN "done" ELSE "holding"]
    /\ UNCHANGED <<jobs, wr, tornFrame>>

TornTick ==
    /\ Tick
    /\ UNCHANGED <<wr, rd>>

InitTornVars ==
    /\ wr = [pc |-> "idle", job_id |-> 0, method |-> "none", kwargs |-> <<>>]
    /\ rd = [pc |-> "idle", job_id |-> 0, endpoint |-> "none", reads |-> <<>>,
             sees |-> [k \in {} |-> 0]]

NextTorn ==
    \/ TornCreate
    \/ \E job_id \in JobIds, method \in Writers : WriterBegins(job_id, method)
    \/ WriterSetattr
    \/ WriterEnds
    \/ \E job_id \in JobIds, endpoint \in Endpoints : ReaderGets(job_id, endpoint)
    \/ ReaderReads
    \/ TornTick

\* ------------------------------------------------------------- the state
vars == <<now, jobs, store, nextId, held, snap, calls, completed,
          written, loop, pc, ctx, sweeper,
          clock, tokens, last_update, acq, started, ledger, fresh,
          limiter, manager, cache, cacheOps, given, got, wrap, prev, retry,
          nodeRun, rec, feed, gapCall, late,
          buckets, cli, wire, answered, cliCalls, wr, rd>>

InitJobVars ==
    /\ now = 0
    /\ jobs = [j \in JobIds |-> NewJobState(PENDING)]
    /\ store = {}
    /\ nextId = 1

InitClientVars ==
    /\ held = 0
    /\ snap = NewJobState(PENDING)
    /\ calls = 0
    /\ completed = [j \in JobIds |-> None]
    /\ written = [j \in JobIds |-> FALSE]

InitRunVars ==
    /\ loop = 0
    /\ pc = [j \in JobIds |-> "none"]
    /\ ctx = [j \in JobIds |-> None]
    /\ sweeper = "sleep"

\* rate_limiter = RateLimiter() has not run yet
InitGateVars == limiter = None

Init ==
    /\ InitJobVars /\ InitClientVars /\ InitRunVars /\ InitRLVars
    /\ InitGateVars /\ InitCacheVars /\ InitRetryVars
    /\ InitNodeVars /\ InitRecVars /\ InitFeedVars /\ InitSkillVars
    /\ InitLateVars /\ InitClientsVars /\ InitTornVars

NextStore ==
    \/ StoreCreate
    \/ \E j \in JobIds : StoreGet(j)
    \/ \E j \in JobIds : StoreSetProcessing(j)
    \/ \E j \in JobIds, p \in Percentages : StoreSetProgress(j, p)
    \/ \E j \in JobIds, r \in Results : StoreSetCompleted(j, r)
    \/ \E j \in JobIds : StoreSetFailed(j)
    \/ \E j \in JobIds : StoreDelete(j)

SpecStore == Init /\ [][NextStore]_vars

NextLate ==
    \/ StoreCreate
    \/ \E j \in JobIds, r \in Results : StoreSetCompleted(j, r)
    \/ \E j \in JobIds : StoreSetFailed(j)
    \/ \E j \in JobIds : StoreDelete(j)
    \/ \E j \in JobIds, method \in Mutators : LateWrite(j, method)
    \/ SweeperWakes
    \/ Sweep
    \/ Tick

SpecLate == Init /\ [][NextLate]_vars

SpecClients == Init /\ [][NextClients]_vars

SpecTorn == Init /\ [][NextTorn]_vars

NextJobs ==
    \/ AnalyzeCv
    \/ \E j \in JobIds : StartRun(j)
    \/ \E j \in JobIds : InitProgress(j)
    \/ \E j \in JobIds : EnterWorkflow(j)
    \/ \E j \in JobIds : InvokeRaises(j, InvokeError)
    \/ \E j \in JobIds : SetupRaises(j, CompileError)
    \/ \E j \in JobIds, k \in 1..4 : \E outcome \in Outcomes(k) : Stage(j, k, outcome)
    \/ \E j \in JobIds : ErrorHandler(j)
    \/ \E j \in JobIds : SyncProgress(j)
    \/ \E j \in JobIds : Finish(j)
    \/ SweeperWakes
    \/ Sweep
    \/ Tick

SpecJobs == Init /\ [][NextJobs]_vars

\* SpecRuns: the job-runs with the serialization failure, and with every
\* started run going on: process_cv_analysis is straight-line code that holds
\* the event loop, and each of its calls returns or raises
NextRuns ==
    \/ NextJobs
    \/ \E j \in JobIds : DumpRaises(j, DumpError)

SpecRuns == Init /\ [][NextRuns]_vars /\ \A j \in JobIds : WF_vars(RunStep(j))

NextRL ==
    \/ \E c \in Callers, n \in TokenCounts, wait \in BOOLEAN : Acquire(c, n, wait)
    \/ \E c \in Callers : ReadWaitTime(c)
    \/ \E c \in Callers : WakeUp(c)
    \/ StartInterval
    \/ ClockTick

SpecRL == Init /\ [][NextRL]_vars

NextFresh ==
    \/ TryAcquire
    \/ ClockTick

SpecFresh == Init /\ [][NextFresh]_vars

NextLimiter ==
    \/ \E enabled \in BOOLEAN, rate \in Rates : RateLimiterInit(enabled, rate)
    \/ \E c \in Callers, n \in TokenCounts, wait \in BOOLEAN :
           RateLimiterAcquire(c, n, wait)
    \/ \E c \in Callers : RateLimiterWaitTime(c)
    \/ \E c \in Callers : RateLimiterWakeUp(c)
    \/ ClockTick

SpecLimiter == Init /\ [][NextLimiter]_vars

NextCache ==
    \/ \E enabled \in BOOLEAN : CacheManagerInit(enabled)
    \/ \E key \in DirectKeys, value \in Values, ttl \in TtlArgs :
           CacheSet(key, value, ttl)
    \/ \E key \in DirectKeys : CacheGet(key)
    \/ \E key \in DirectKeys : CacheDelete(key)
    \/ Tick

SpecCache == Init /\ [][NextCache]_vars

NextCached ==
    \/ \E enabled \in BOOLEAN : CacheManagerInit(enabled)
    \/ \E call \in Calls, result \in FuncResults : CachedCall(call, result)
    \/ Tick

SpecCached == Init /\ [][NextCached]_vars

NextRetry ==
    \/ \E max_retries \in 0..MaxRetries, delay \in Delays, backoff \in Backoffs :
           RetryCall(max_retries, delay, backoff)
    \/ \E outcome \in FuncOutcomes : RetryAttempt(outcome)
    \/ RetrySleep

SpecRetry == Init /\ [][NextRetry]_vars

SpecNodes == Init /\ [][NextNodes]_vars

SpecRecommend == Init /\ [][NextRecommend]_vars

SpecFeed == Init /\ [][NextFeed]_vars

SpecSkills == Init /\ [][NextSkills]_vars

SpecGaps == Init /\ [][NextGaps]_vars

\* ------------------------------------------------------ claims: job-runs
Created(j) == pc[j] # "none"
FinalState(j) == ctx[j][1]
RanToEnd(j) == pc[j] = "done" /\ ctx[j] # None

\* C1: while a job is neither Completed nor Failed, no store write lowers
\* its progress_percentage, so every reader sees a non-decreasing sequence.
C1_ProgressNeverDecreases ==
    [][\A j \in JobIds :
          (j \in store /\ ~IsTerminal(jobs[j]))
              => jobs'[j].progress_percentage >= jobs[j].progress_percentage]_vars

\* C2: when stage k fails no later stage is executed, and the run leaves the
\* job Failed with the non-empty join of the error list; a run with errors
\* never leaves the job Completed.
C2_FailureStopsRun ==
    \A j \in JobIds :
        ctx[j] # None =>
            LET s == FinalState(j)
                k == s.failed_at
            IN  /\ k > 0 =>
                    /\ \A i \in 1..Len(s.executed) :
                           \A m \in (k + 1)..4 : s.executed[i] # Stages[m]
                    /\ (pc[j] = "done" /\ j \in store) =>
                           /\ jobs[j].status = FAILED
                           /\ jobs[j].error = Some(JoinErrors(s.errors))
                           /\ jobs[j].error # Some(<<>>)
                /\ (Len(s.errors) > 0 /\ pc[j] = "done" /\ j \in store) =>
                       jobs[j].status # COMPLETED

C2_Witness ==
    \E j \in JobIds :
        /\ RanToEnd(j) /\ j \in store
        /\ FinalState(j).failed_at = 2
        /\ FinalState(j).executed = <<"parse_cv", "analyze_job", "error_handler">>
        /\ jobs[j].status = FAILED

\* C3: a run whose four stages all succeed leaves the job Completed with
\* progress 100 and the payload of the last stage's recommendation result.
AllStagesSucceeded(s) == s.executed = Stages /\ s.failed_at = 0

C4_ExactlyOneOfResultError ==
    \A j \in JobIds :
        Created(j) =>
            /\ jobs[j].status = COMPLETED =>
                   (jobs[j].result # None /\ jobs[j].error = None)
            /\ jobs[j].status = FAILED =>
                   (jobs[j].error # None /\ jobs[j].result = None)

C4_Witness ==
    /\ \E j \in JobIds : Created(j) /\ jobs[j].status = COMPLETED
    /\ \E j \in JobIds : Created(j) /\ jobs[j].status = FAILED

\* C6: a sweep removes exactly the Completed or Failed jobs whose updated_at
\* is strictly before now - retention; every other job stays.
C6_SweepRemovesExactly ==
    [][(sweeper = "cleanup" /\ sweeper' = "sleep") =>
          /\ store' \subseteq store
          /\ \A j \in store :
                 (j \notin store') <=>
                     (/\ jobs[j].status \in {COMPLETED, FAILED}
                      /\ jobs[j].updated_at < now - RetentionSeconds)]_vars

\* a finished job was swept while a stale Processing job was kept
C6_Witness ==
    /\ sweeper = "sleep"
    /\ \E j \in JobIds : pc[j] = "done" /\ j \notin store
    /\ \E j \in store :
           /\ jobs[j].status = PROCESSING
           /\ jobs[j].updated_at < now - RetentionSeconds

\* ------------------------------------------------- claims: the JobManager
\* what a get_job(id) made now returns, read at once
Read(job_id) == jobs[GetJob(job_id)]

ReadsCompleted(j) ==
    /\ Read(j).status = COMPLETED
    /\ Read(j).result = completed[j]
    /\ Read(j).progress_percentage = 100

\* C5 as stated: after set_completed(id, r) every later get_job(id) on a
\* stored job returns Completed, r and 100, whatever was called on id since.
C5_CompletedWhateverFollows ==
    \A j \in JobIds :
        (completed[j] # None /\ j \in store) => ReadsCompleted(j)

\* C5 amended: after set_completed(id, r), get_job(id) on a stored job returns
\* Completed, r and 100 for as long as no update_job/set_* call on id follows.
C5_CompletedUntilWritten ==
    \A j \in JobIds :
        (completed[j] # None /\ ~written[j] /\ j \in store) => ReadsCompleted(j)

\* a get_job after the set_completed, with calls on another job in between
C5_Witness ==
    \E j \in JobIds :
        /\ completed[j] = Some("planB") /\ ~written[j] /\ j \in store
        /\ held = j /\ snap.status = COMPLETED
        /\ \E i \in JobIds \ {j} : written[i]

\* C7: what get_job returned still has the fields it had when it returned.
C7_GetJobReturnsSnapshot ==
    held # 0 => jobs[held] = snap

\* ------------------------------------------------ claims on the RateLimiter
\* C8 (as stated): an acquire(service, tokens, wait=True) that found too few
\* tokens, and therefore slept once for wait_time(), has subtracted its
\* tokens and returns True, whatever the token count asked for and whatever
\* other callers took from the bucket during the sleep.
C8_BlockingAcquireReturnsTrue ==
    \A c \in Callers : acq[c].waited => acq[c].ret = "True"

\* C9: from the moment an observer starts to count, the units granted by all
\* the consume calls of all callers never exceed what the bucket held at that
\* moment (the stored count and what had lazily accrued on it, capped at the
\* capacity) plus the one unit a tick that elapsed time * rate / per refills.
C9_GrantedWithinBudget ==
    ledger.granted <= ledger.avail + (clock - ledger.since)

\* C9 witness: two callers were granted tokens after a sleep each, in an
\* interval that began on a bucket that was not full, and together they were
\* granted everything the interval's budget allowed.
C9_Witness ==
    /\ ledger.since > 0
    /\ ledger.avail < Capacity
    /\ ledger.granted = ledger.avail + (clock - ledger.since)
    /\ ledger.granted > 0
    /\ \E c, d \in Callers :
          /\ c # d
          /\ acq[c].waited /\ acq[c].ret = "True"
          /\ acq[d].waited /\ acq[d].ret = "True"

\* C10 (as stated): on a fresh bucket the first Rate non-blocking acquires of
\* one token return True, the (Rate + 1)-th returns False when it is made
\* less than a period after the first, and an acquire made a full period or
\* more after the one before it returns True.
C10_FreshBucketByPeriod ==
    fresh.calls > 0 =>
        /\ fresh.calls <= Rate => fresh.ok
        /\ (fresh.calls = Rate + 1 /\ fresh.at - fresh.first < Period)
               => ~fresh.ok
        /\ fresh.gap >= Period => fresh.ok

\* C10 (amended): as above, but the (Rate + 1)-th acquire is only sure to
\* return False when it is made before one token's refill time, per / rate,
\* has passed since the first acquire.
C10_FreshBucketByTokenTime ==
    fresh.calls > 0 =>
        /\ fresh.calls <= Rate => fresh.ok
        /\ (fresh.calls = Rate + 1 /\ fresh.at - fresh.first < Units(1))
               => ~fresh.ok
        /\ fresh.gap >= Period => fresh.ok

\* C10 witness: the bucket was emptied by Rate acquires, the (Rate + 1)-th
\* came within one token's refill time and was refused, and a later acquire,
\* made a full period after it, was granted.
C10_Witness ==
    /\ fresh.calls = Rate + 2
    /\ fresh.first + Units(1) > last_update - fresh.gap
    /\ fresh.gap >= Period
    /\ fresh.ok
    /\ tokens = Capacity - Units(1)

\* ------------------------------- claims on the RateLimiter as configured
\* C11 (as stated): with rate limiting disabled, or with the service's
\* bucket configured with rate 0, no acquire call sleeps or fails: every
\* call, blocking or not, has returned True at once.
C11_DisabledOrZeroRatePermits ==
    (limiter # None /\ (~Enabled \/ BucketRate = 0)) =>
        \A c \in Callers :
            /\ acq[c].pc = "idle"
            /\ acq[c].ret \in {"none", "True"}
            /\ ~acq[c].waited

\* C12: a step of acquire(service, n, wait=False) on an enabled bucket that
\* holds fewer than n tokens after the refill returns False at once, without
\* a sleep, and leaves exactly the refilled count in the bucket.
C12_NonBlockingRefusalKeepsTokens ==
    [][\A c \in Callers, n \in TokenCounts :
          (/\ limiter # None
           /\ Enabled
           /\ RefilledOf(BucketRate) < Units(n)
           /\ RateLimiterAcquire(c, n, FALSE))
              => /\ tokens' = RefilledOf(BucketRate)
                 /\ acq'[c] = Idle("False", FALSE)
                 /\ clock' = clock]_vars

\* C12 witness: a non-blocking acquire of two tokens was refused later than
\* the last consume, on a bucket that had refilled to more than one token,
\* and left the refilled count there.
C12_Witness ==
    /\ limiter # None /\ Enabled /\ BucketRate = Rate
    /\ \E c \in Callers : acq[c] = Idle("False", FALSE)
    /\ last_update = clock /\ clock > 0
    /\ tokens > Units(1) /\ tokens < Units(2)

\* C13: the token count of an enabled service's bucket is never negative
\* and never above the bucket's capacity, its rate.
C13_TokensWithinCapacity ==
    (limiter # None /\ Enabled) =>
        (0 <= tokens /\ tokens <= BucketRate * Grain)

\* C13 witness: after acquires by two callers and a wait, a consume found
\* the bucket refilled to its capacity and took one token from it.
C13_Witness ==
    /\ limiter # None /\ Enabled /\ BucketRate = Rate
    /\ started >= 3
    /\ \E c, d \in Callers :
          c # d /\ acq[c].ret = "True" /\ acq[d].ret = "True"
    /\ last_update = clock /\ clock >= Period
    /\ tokens = BucketRate * Grain - Units(1)

\* ------------------------------------------------- claims on the cache
\* C14 (as stated): whatever key and ttl were given to the last set on a key,
\* a get of that key made before ttl seconds have passed since the set
\* returned the value set, and a get made once ttl seconds had passed
\* returned absent and left no entry for the key in the store.
C14_TtlDecidesHit ==
    (got # None /\ CachingEnabled) =>
        LET g == got[1] IN
        (g.set # None /\ g.set[1].ttl # None) =>
            IF g.at < g.set[1].at + g.set[1].ttl[1]
            THEN g.ret = Some(g.set[1].value)
            ELSE g.ret = None /\ ~g.kept

\* C15: with caching disabled, a call through the cached wrapper has invoked
\* the wrapped function exactly once and made no get and no set on the
\* cache manager, and the cache holds what it held before: nothing.
C15_DisabledPassesThrough ==
    (wrap # None /\ ~CachingEnabled) =>
        /\ wrap[1].invoked = 1
        /\ wrap[1].gets = 0
        /\ wrap[1].sets = 0
        /\ cache = EmptyCache

\* C15 witness: caching disabled, the same call made twice in a row, the
\* second one again answered by the wrapped function with its new result.
C15_Witness ==
    /\ wrap # None /\ prev # None /\ ~CachingEnabled
    /\ wrap[1].call = prev[1].call
    /\ wrap[1].invoked = 1 /\ prev[1].invoked = 1
    /\ wrap[1].ret # prev[1].ret

\* C16 (as stated): two calls of the operation through the wrapper that bind
\* the same values to the same parameters are given the same cache key,
\* however the arguments were supplied.
C16_SameArgumentsSameKey ==
    (wrap # None /\ prev # None) =>
        ((/\ wrap[1].key # None
          /\ prev[1].key # None
          /\ Bound(wrap[1].call) = Bound(prev[1].call))
             => wrap[1].key = prev[1].key)

\* --------------------------------------------- claims on retry_on_error
Raises(outcome) == outcome[1] = "raise"
\* the retryable kinds: APIError and the API errors derived from it
Retryable(e) == e.kind \in {"APIError", "RateLimitError"}
Ended == retry.pc \in {"returned", "raised"}
RECURSIVE Pow(_, _)
Pow(b, k) == IF k = 0 THEN 1 ELSE b * Pow(b, k - 1)

\* C17: func is invoked at most max_retries + 1 times; the wrapper returns
\* the value of the first invocation that succeeds, which is the last one
\* made; when all max_retries + 1 invocations raise a retryable error the
\* wrapper raises the error of the last of them.
C17_BoundedAttempts ==
    LET o == retry.outcomes n == Len(retry.outcomes) IN
    /\ n <= retry.max_retries + 1
    /\ \A i \in 1..n : ~Raises(o[i]) =>
           (i = n /\ retry.pc = "returned" /\ retry.ret = Some(o[i][2]))
    /\ retry.pc = "returned" => (n > 0 /\ ~Raises(o[n]))
    /\ (/\ Ended
        /\ n = retry.max_retries + 1
        /\ \A i \in 1..n : Raises(o[i]) /\ Retryable(o[i][2]))
           => (retry.pc = "raised" /\ retry.raised = Some(o[n][2]))

\* C17 witness: with max_retries = 2, three attempts that raised three
\* different retryable errors, the last of which the wrapper raised.
C17_Witness ==
    /\ retry.pc = "raised" /\ retry.max_retries = 2
    /\ Len(retry.outcomes) = 3
    /\ \A i \in 1..3 : Raises(retry.outcomes[i]) /\ Retryable(retry.outcomes[i][2])
    /\ retry.outcomes[1] # retry.outcomes[2]
    /\ retry.outcomes[2] # retry.outcomes[3]
    /\ retry.outcomes[1] # retry.outcomes[3]
    /\ retry.raised = Some(retry.outcomes[3][2])

\* C18: an error that is not of a retryable kind ends the call at the
\* attempt that raised it: it is what the wrapper raises, no attempt and no
\* sleep follows it.
C18_OtherErrorsPropagate ==
    LET o == retry.outcomes n == Len(retry.outcomes) IN
    \A i \in 1..n :
        (Raises(o[i]) /\ ~Retryable(o[i][2])) =>
            /\ i = n
            /\ retry.pc = "raised"
            /\ retry.raised = Some(o[i][2])
            /\ Len(retry.slept) = i - 1

\* C18 witness: a retryable error, a sleep, then an error of another kind
\* that was raised to the caller with a retry still left.
C18_Witness ==
    /\ retry.pc = "raised" /\ retry.max_retries = 2
    /\ Len(retry.outcomes) = 2
    /\ Raises(retry.outcomes[1]) /\ Retryable(retry.outcomes[1][2])
    /\ Raises(retry.outcomes[2]) /\ ~Retryable(retry.outcomes[2][2])
    /\ retry.raised = Some(retry.outcomes[2][2])

\* C19: there is one sleep for each failed attempt that another attempt
\* follows and none after the last attempt; the sleep after failed attempt
\* number k, counted from 0, lasts delay * backoff^k.
C19_BackoffSchedule ==
    /\ Len(retry.slept) =
           IF Ended /\ Len(retry.outcomes) > 0 THEN Len(retry.outcomes) - 1
           ELSE Len(retry.outcomes)
    /\ \A k \in 0..(Len(retry.slept) - 1) :
           retry.slept[k + 1] = retry.delay * Pow(retry.backoff, k)

\* C19 witness: delay 2 and backoff 3, two sleeps of 2 and 6, and no sleep
\* after the third and last attempt failed.
C19_Witness ==
    /\ retry.pc = "raised" /\ retry.max_retries = 2
    /\ retry.delay = 2 /\ retry.backoff = 3
    /\ Len(retry.outcomes) = 3
    /\ retry.slept = <<2, 6>>

\* ------------------------------------------------- claims on the workflow graph
StageIndex(name) == CHOOSE k \in 1..4 : Stages[k] = name
IsStage(name) == \E k \in 1..4 : Stages[k] = name
StageOutputs(state) ==
    <<state.cv_data, state.job_requirements, state.skill_match_analysis,
      state.recommendation_result>>
RECURSIVE StagesOf(_)
StagesOf(executed) ==
    IF Len(executed) = 0 THEN <<>>
    ELSE IF IsStage(executed[1]) THEN <<executed[1]>> \o StagesOf(Tail(executed))
    ELSE StagesOf(Tail(executed))

\* C20: the stages a run executes are parse_cv, analyze_job, identify_gaps,
\* generate_recommendations in this order; after a stage the run is at the
\* error handler if and only if the error list is non-empty, and otherwise at
\* the next stage (at the end after generate_recommendations); the error
\* handler executes no stage, leaves the error list and the stage outputs as
\* they are, and is followed by the end.
C20_StageOrderAndErrorRouting ==
    /\ [](\A j \in JobIds :
             ctx[j] # None =>
                 LET ran == StagesOf(FinalState(j).executed) IN
                 /\ Len(ran) <= 4
                 /\ ran = SubSeq(Stages, 1, Len(ran)))
    /\ [][\A j \in JobIds :
             /\ (IsStage(pc[j]) /\ pc'[j] # pc[j]) =>
                    LET k == StageIndex(pc[j])
                        after == ctx'[j][1]
                    IN  /\ after.executed = Append(ctx[j][1].executed, Stages[k])
                        /\ (pc'[j] = "error_handler") <=> (Len(after.errors) > 0)
                        /\ Len(after.errors) = 0 =>
                               pc'[j] = (IF k < 4 THEN Stages[k + 1] ELSE "sync_progress")
             /\ (pc[j] = "error_handler" /\ pc'[j] # pc[j]) =>
                    /\ pc'[j] = "sync_progress"
                    /\ StagesOf(ctx'[j][1].executed) = StagesOf(ctx[j][1].executed)
                    /\ ctx'[j][1].errors = ctx[j][1].errors
                    /\ StageOutputs(ctx'[j][1]) = StageOutputs(ctx[j][1])]_vars

C20_Witness ==
    \E j \in JobIds :
        /\ pc[j] = "sync_progress"
        /\ FinalState(j).executed =
               <<"parse_cv", "analyze_job", "identify_gaps", "error_handler">>
        /\ Len(FinalState(j).errors) = 1
        /\ FinalState(j).cv_data # None
        /\ FinalState(j).skill_match_analysis = None

\* --------------------------------------------- claims on the stage nodes
\* C21: whatever its agent does, a stage node returns (no exception leaves
\* it); when an exception was raised in it, the error list has grown by exactly
\* one message, not empty, and no stage output has been written; when none
\* was raised the error list is as it was.
C21_NodesCatchAndReport ==
    nodeRun.last # None =>
        LET c == nodeRun.last[1]
            after == nodeRun.state
            e == RaisedIn(c.k, c.before, c.outcome)
        IN  /\ c.raised = None
            /\ e # None =>
                   /\ Len(after.errors) = Len(c.before.errors) + 1
                   /\ SubSeq(after.errors, 1, Len(c.before.errors)) = c.before.errors
                   /\ after.errors[Len(after.errors)] # <<>>
                   /\ StageOutputs(after) = StageOutputs(c.before)
            /\ e = None => after.errors = c.before.errors

C21_Witness ==
    /\ nodeRun.last # None
    /\ nodeRun.last[1].k = 3
    /\ nodeRun.last[1].outcome = <<"raise", RateLimitErrorOf("LLM", Some(30))>>
    /\ nodeRun.last[1].before.cv_data # None
    /\ nodeRun.last[1].before.job_requirements # None
    /\ nodeRun.state.errors = <<<<"API rate limit exceeded for ", "LLM", ".",
                               " Please wait ", "30", " seconds.">>>>
    /\ nodeRun.state.skill_match_analysis = None

\* ------------------------------------- claims on the project recommender
\* process_cv_analysis: the final states for which it calls set_completed
EndsCompleted(final_state) ==
    Len(final_state.errors) = 0 /\ final_state.recommendation_result # None

SearchFailed(outcome) == outcome[1] = "raise"
ListFor(outcome) == IF SearchFailed(outcome) THEN <<>> ELSE outcome[2]

\* C22: for each skill, the GitHub, YouTube and web resource lists of its
\* recommendation are what the client returned, or empty when the client
\* raised; and whatever the searches did, a call whose gap analysis succeeded
\* handles every skill and leaves the workflow state without errors and with
\* a recommendation result, which is the state of a job that ends Completed.
C22_SearchFailuresSwallowed ==
    /\ \A i \in 1..Len(rec.recommendations) :
           /\ rec.recommendations[i].github_resources = ListFor(rec.searches[i].github)
           /\ rec.recommendations[i].youtube_resources = ListFor(rec.searches[i].youtube)
           /\ rec.recommendations[i].web_resources = ListFor(rec.searches[i].web)
    /\ (rec.pc = "ended" /\ rec.analysis[1][1] = "ok") =>
           /\ Len(rec.searches) = Len(rec.gaps)
           /\ rec.state[1].errors = <<>>
           /\ EndsCompleted(rec.state[1])
           /\ ShouldContinue(rec.state[1]) = "end"
           /\ Len(ModelDump(rec.state[1].recommendation_result[1]).skill_gap_recommendations)
                  = Len(rec.gaps)

C22_Witness ==
    /\ rec.pc = "ended"
    /\ Len(rec.gaps) = 2
    /\ Len(rec.searches) = 2
    /\ SearchFailed(rec.searches[1].github)
    /\ SearchFailed(rec.searches[1].youtube)
    /\ SearchFailed(rec.searches[1].web)
    /\ ~SearchFailed(rec.searches[2].github)
    /\ rec.recommendations[1].github_resources = <<>>
    /\ rec.recommendations[2].github_resources # <<>>
    /\ EndsCompleted(rec.state[1])

EntryCheckpoint(k) == <<10, 30, 50, 65>>[k]

\* C24: when stage k of the run of a stored job has been entered and has done
\* its work, the Job in the store has a progress of at least stage k's entry
\* checkpoint (10, 30, 50, 65), which is what a reader of the store sees
\* during the stage.
C24_StoreHasStageCheckpoint ==
    [][\A j \in JobIds : \A k \in 1..4 :
          (pc[j] = Stages[k] /\ pc'[j] # pc[j] /\ j \in store') =>
              jobs'[j].progress_percentage >= EntryCheckpoint(k)]_vars

\* ------------------------------------------ claims on concurrent job-runs
\* C25: job-runs are not serialized against each other and do not block
\* readers: a job-run that has been scheduled can take its first step, which
\* makes its job Processing, while another job is Processing, and a status
\* read of a job can be made between two steps of a running job-run.
C25_RunsOverlapReadersNotBlocked ==
    \A j \in JobIds :
        /\ (pc[j] = "scheduled" /\ \E i \in store : jobs[i].status = PROCESSING)
               => ENABLED StartRun(j)
        /\ (j \in Issued /\ loop # 0) => ENABLED GetJobStatus(j)

\* ---- claims about the SkillGapAnalyzerAgent (SpecSkills)

\* the names of a list, as a set
Names(skills) == {skills[i] : i \in 1..Len(skills)}

\* the lists that hold the elements of a list in every order
Reorderings(skills) ==
    {[i \in 1..Len(skills) |-> skills[f[i]]] : f \in Permutations(1..Len(skills))}

\* a name in lower case, without the whitespace around it and without any
\* ".", "-" or " "
WithoutMarks(skill_name) ==
    SelectSeq(StrStrip(StrLower(skill_name)), LAMBDA c : c \notin {".", "-", " "})

reactjs == <<"r", "e", "a", "c", "t", "j", "s">>
nodejs == <<"n", "o", "d", "e", "j", "s">>
python3 == <<"p", "y", "t", "h", "o", "n", "3">>

\* C26: analyze_gaps returns as match_percentage 100 times the number of
\* matched required skills over the number of normalized required skills,
\* rounded to one decimal; it lies in [0, 100], and is 100 when no skill is
\* required.  (The percentage is counted in tenths.)
C26_MatchPercentage ==
    gapCall.op = "analyze_gaps" =>
        LET required == NormalizeSkills(gapCall.args[2])
            matched == required \ gapCall.ret.missing_required_skills
            percentage == gapCall.ret.match_percentage
        IN  /\ percentage >= 0 /\ percentage <= 1000
            /\ required # {} =>
                   percentage = RoundTenths(Cardinality(matched), Cardinality(required))
            /\ gapCall.args[2] = <<>> => percentage = 1000

C26_Witness ==
    /\ gapCall.op = "analyze_gaps"
    /\ Len(gapCall.args[2]) = 3
    /\ gapCall.ret.match_percentage = 333

\* C27: the missing required skills of analyze_gaps are the normalized
\* required skills that are not among the normalized skills of the CV and are
\* not similar (ratio >= 0.85) to any of them; total_required_skills counts
\* the distinct normalized required skills; required Python, React, Node.js
\* against a CV with Python, JavaScript, React gives 3 required, nodejs
\* missing, and a match of 66.7.
C27_MissingRequired ==
    gapCall.op = "analyze_gaps" =>
        LET cv_skills == NormalizeSkills(gapCall.args[1])
            required == NormalizeSkills(gapCall.args[2])
        IN  /\ gapCall.ret.missing_required_skills =
                   {r \in required :
                       /\ r \notin cv_skills
                       /\ \A c \in cv_skills : ~SimilarAtLeast(r, c, 85)}
            /\ gapCall.ret.total_required_skills = Cardinality(required)
            /\ (/\ Names(gapCall.args[2]) = {Python, React, NodeJs}
                /\ Names(gapCall.args[1]) = {Python, JavaScript, React})
                   => /\ gapCall.ret.total_required_skills = 3
                      /\ gapCall.ret.missing_required_skills = {nodejs}
                      /\ gapCall.ret.match_percentage = 667

C27_Witness ==
    /\ gapCall.op = "analyze_gaps"
    /\ Names(gapCall.args[2]) = {Python, React, NodeJs}
    /\ Names(gapCall.args[1]) = {Python, JavaScript, React}
    /\ gapCall.ret.missing_required_skills = {nodejs}

\* C28: normalizing the names that _normalize_skills returned gives the same
\* set again, and _normalize_skills returns the same set for the names of its
\* list in any other order.
C28_NormalizationIdempotent ==
    /\ gapCall.op = "_normalize_skills again" => gapCall.ret = Names(gapCall.args[1])
    /\ gapCall.op = "_normalize_skills" =>
           \A other \in Reorderings(gapCall.args[1]) : NormalizeSkills(other) = gapCall.ret

\* C29: _normalize_skills returns the set of its names put in lower case,
\* without the whitespace around them and without any ".", "-" or " "; names
\* that differ in case, dots, hyphens and spaces only become one element;
\* React.js, Node.js, Python 3 become reactjs, nodejs, python3.
C29_NormalizeSkills ==
    gapCall.op = "_normalize_skills" =>
        LET skills == gapCall.args[1] IN
        /\ gapCall.ret = {WithoutMarks(skills[i]) : i \in 1..Len(skills)}
        /\ (skills # <<>> /\ Names(skills) \subseteq Spellings) => gapCall.ret = {reactjs}
        /\ skills = <<ReactJs, NodeJs, Python3>> => gapCall.ret = {reactjs, nodejs, python3}

C29_Witness ==
    /\ gapCall.op = "_normalize_skills"
    /\ gapCall.args[1] = <<ReactJs, NodeJs, Python3>>
    /\ gapCall.ret = {reactjs, nodejs, python3}

\* C30: whatever the threshold, _find_matches returns every target skill
\* that is in the candidate set, returns target skills only, and returns
\* nothing for an empty candidate set.
C30_FindMatches ==
    gapCall.op = "_find_matches" =>
        LET cv_skills == gapCall.args[1]
            job_skills == gapCall.args[2]
        IN  /\ (cv_skills \cap job_skills) \subseteq gapCall.ret
            /\ gapCall.ret \subseteq job_skills
            /\ cv_skills = {} => gapCall.ret = {}

C30_Witness ==
    /\ gapCall.op = "_find_matches"
    /\ gapCall.args[3] > 100
    /\ gapCall.args[1] \cap gapCall.args[2] # {}
    /\ gapCall.ret = gapCall.args[1] \cap gapCall.args[2]
    /\ gapCall.ret # gapCall.args[2]

\* ---- claims about get_prioritized_gaps (SpecGaps)

\* the place in a list of names of the first name that normalizes to a skill
SourceIndex(names, skill_name) ==
    CHOOSE k \in 1..Len(names) :
        /\ NormalizeSkill(names[k]) = skill_name
        /\ \A l \in 1..(k - 1) : NormalizeSkill(names[l]) # skill_name

\* C31: get_prioritized_gaps returns every required gap before every
\* preferred gap, each with the priority and the impact of its group, and the
\* gaps of a group in the order of the job's required (preferred) skill list.
C31_RequiredFirstInSourceOrder ==
    gapCall.op = "get_prioritized_gaps" =>
        LET gaps == gapCall.ret
            source(priority) ==
                IF priority = "required" THEN gapCall.args[2] ELSE gapCall.args[3]
        IN  \A i, j \in 1..Len(gaps) :
                /\ gaps[i].priority \in {"required", "preferred"}
                /\ gaps[i].impact = IF gaps[i].priority = "required"
                                    THEN "Critical for role - this is a required skill"
                                    ELSE "Nice to have - would strengthen your application"
                /\ (gaps[i].priority = "required" /\ gaps[j].priority = "preferred") => i < j
                /\ (gaps[i].priority = gaps[j].priority /\ i < j) =>
                       SourceIndex(source(gaps[i].priority), gaps[i].skill_name)
                           < SourceIndex(source(gaps[j].priority), gaps[j].skill_name)

\* ------------------------------------- claims on writes to unknown jobs
\* C32: update_job and every set_* mutator called with an id that is not
\* stored (never created, deleted or cleaned up) leaves every job and the set
\* of stored ids as they were; no call re-creates a removed job.
C32_UnknownIdIsNoOp ==
    /\ late.unchanged
    /\ late.job_id # 0 => (late.job_id \in store => late.job_id \in Issued)
    /\ \A j \in JobIds \ Issued : j \notin store

C32_Witness ==
    /\ late.method = "set_completed"
    /\ late.created
    /\ late.job_id \notin store
    /\ jobs[late.job_id].status = FAILED
    /\ store # {}

\* C33: whatever create_job, set_processing, set_progress (with any integer
\* percentage), set_completed and set_failed calls were made, every stored
\* job has a progress_percentage from 0 to 100.
C33_ProgressWithinBounds ==
    \A j \in store :
        jobs[j].progress_percentage >= 0 /\ jobs[j].progress_percentage <= 100

\* the job's last write was a set_progress that passed more than 100
C33_Witness ==
    \E j \in store :
        /\ jobs[j].current_step = "Working..."
        /\ jobs[j].status = PENDING
        /\ jobs[j].progress_percentage = 100

\* C34: create_job returns an id that no job has or had, stores under it a
\* job that get_job returns as Pending with progress 0, no result and no
\* error, and leaves every other job as it was.
C34_CreateJobIsFresh ==
    [][nextId' # nextId =>
          /\ nextId \notin store /\ nextId \notin Issued
          /\ store' = store \cup {nextId}
          /\ jobs'[nextId].status = PENDING
          /\ jobs'[nextId].progress_percentage = 0
          /\ jobs'[nextId].result = None
          /\ jobs'[nextId].error = None
          /\ \A j \in JobIds \ {nextId} : jobs'[j] = jobs[j]]_vars

C34_Witness ==
    /\ nextId = 3
    /\ store = {1, 2}
    /\ jobs[1].status = COMPLETED
    /\ jobs[2].status = PENDING /\ jobs[2].progress_percentage = 0
    /\ held = 2 /\ snap = jobs[2]

\* C35: an acquire changes no bucket but the one of the service it names,
\* and whatever the other buckets hold, an acquire whose own bucket has a
\* token returns True at once, without waiting.
C35_OwnBucketOnly ==
    [][/\ DOMAIN buckets' = DOMAIN buckets =>
            \A s \in DOMAIN buckets :
                buckets'[s] # buckets[s] =>
                    cli.pc \in {"method", "wait"} /\ s = ServiceOf(cli.client)
       /\ ( /\ cli.pc = "method" /\ cli'.pc # "method"
            /\ ServiceOf(cli.client) \in DOMAIN buckets
            /\ BucketRefilled(buckets[ServiceOf(cli.client)]) >= Units(1) )
          => cli'.pc = "send" /\ cli'.acquired = "token" /\ ~cli'.waited]_vars

\* the github bucket is empty and an acquire of youtube got its token at once
C35_Witness ==
    /\ "github" \in DOMAIN buckets
    /\ BucketRefilled(buckets["github"]) < Units(1)
    /\ buckets["youtube"].tokens = Capacity - Units(1)
    /\ cli.client = "YouTube" /\ cli.pc = "send"
    /\ cli.acquired = "token" /\ ~cli.waited

\* C36: with rate limiting enabled, every request a client sends follows an
\* acquire that took a token from the bucket of the client's service.
C36_RequestFollowsToken ==
    (wire # None /\ wire[1].limited) => wire[1].acquired = "token"

\* C37: after a search request that failed, the cache holds no entry for
\* that call.
C37_FailureLeavesNoEntry ==
    (wire # None /\ wire[1].client \in SearchClients /\ wire[1].response # SUCCESS)
        => ClientKey(wire[1].client, wire[1].query) \notin DOMAIN cache

\* C38: a search call made before the ttl of the value cached for the same
\* call has elapsed returns that value, acquires no token and sends no
\* request; and in every round of a retry the cache is read before a token
\* is taken.
C38_HitSkipsTokenAndRequest ==
    /\ (cli.prior # None /\ cli.looked < cli.prior[1].at + TtlOr(DecoratorTtl))
          => /\ cli.pc = "returned"
             /\ cli.ret = Some(cli.prior[1].value)
             /\ cli.acquires = 0 /\ cli.requests = 0
    /\ (cli.client \in SearchClients /\ manager # None /\ ~PassThrough)
          => /\ cli.acquires <= cli.lookups
             /\ cli.pc = "method" => cli.acquires < cli.lookups
             /\ cli.pc \in {"wait", "send"} => cli.lookups = cli.attempt + 1

\* the Google search that failed is asked again: the cached [] comes back
\* with no token taken and nothing sent
C38_Witness ==
    /\ cli.pc = "returned" /\ cli.client = "Google"
    /\ cli.prior # None /\ cli.looked < cli.prior[1].at + TtlOr(DecoratorTtl)
    /\ cli.ret = Some("[]")
    /\ cli.acquires = 0 /\ cli.requests = 0 /\ cli.lookups = 1
    /\ wire # None /\ wire[1].client = "Google" /\ wire[1].response = "RequestException"

\* C39: what a reader sees of a job it got from get_job, while a writer is
\* in set_completed or set_failed, is never Completed without a result or
\* with a progress under 100, nor Failed without an error.
C39_NoTornRead ==
    LET sees == rd.sees
        saw(key) == key \in DOMAIN sees
    IN  saw("status") =>
            /\ (sees.status = COMPLETED /\ saw("result")) => sees.result # None
            /\ (sees.status = COMPLETED /\ saw("progress_percentage"))
                  => sees.progress_percentage = 100
            /\ (sees.status = FAILED /\ saw("error")) => sees.error # None

\* C40: a job-run that has started reaches its end, and at its end the job,
\* if it is still stored, is Completed or Failed; it is never Pending or
\* Processing once its run has ended.
RunGoing(j) == pc[j] \notin {"none", "scheduled", "done"}
RunEnded(j) == pc[j] = "done" /\ (j \in store => IsTerminal(jobs[j]))
C40_RunEndsTerminal ==
    /\ \A j \in JobIds : RunGoing(j) ~> RunEnded(j)
    /\ [](\A j \in JobIds : pc[j] = "done" => RunEnded(j))

\* a run whose result could not be serialized has ended, the job Failed
C40_Witness ==
    \E j \in JobIds :
        /\ pc[j] = "done" /\ j \in store
        /\ jobs[j].status = FAILED
        /\ jobs[j].error = Some(<<"Analysis failed: ">> \o Str(DumpError))
        /\ ctx[j] # None /\ ctx[j][1].recommendation_result # None

====
